---- MODULE Spec2Model ----
(***************************************************************************)
(* A model of use-cache: the CacheManager singleton, the cache decorator   *)
(* (cache-aside protocol), the key builders, the coders and the in-memory  *)
(* backend with its lazy, TTL-on-access expiry.                            *)
(*                                                                         *)
(* Python strings are sequences of one-character strings, so that          *)
(* str.startswith is a real prefix test.  Optional[int] None is NoneInt,   *)
(* Optional[str] None is NoneStr, Optional[bytes] None is NoneBytes.       *)
(***************************************************************************)
EXTENDS Integers, Sequences, FiniteSets, TLC

\* ------------------------------------------------------------------ bounds
MaxClock == 3       \* the clock int(time.time()) runs over 0..MaxClock
MaxManagers == 2    \* CacheManager objects constructed per behaviour
MaxCalls == 2       \* decorated calls started per behaviour

\* ------------------------------------------------------- Python's None etc.
NoneInt == -1
NoneStr == <<"<None>">>
NoneBytes == <<"<absent>">>

\* Truthiness of an Optional[int] (`expire or 0`) and of an Optional[str]
\* (`if namespace:` / `elif key:`).
TruthyInt(n) == n # NoneInt /\ n # 0
TruthyStr(s) == s # NoneStr /\ s # <<>>

\* a or b, on Optional[int]
OrInt(a, b) == IF TruthyInt(a) THEN a ELSE b

\* Faulty variant: only a key that is the prefix itself matches.
StartsWith_WholeKey(k, p) == k = p

\* str.startswith
StartsWith(k, p) == Len(p) <= Len(k) /\ SubSeq(k, 1, Len(p)) = p

\* dict helpers: a dict is a function whose DOMAIN is its key set.
DictSet(d, k, v) == [x \in DOMAIN d \cup {k} |-> IF x = k THEN v ELSE d[x]]
DictDel(d, ks) == [x \in DOMAIN d \ ks |-> d[x]]
EmptyDict == [x \in {} |-> NoneBytes]

\* ------------------------------------------------------- InMemoryBackend
\* dataclass Value(data, ttl_ts); NoValue is the None that _get returns.
Value(data, ttl_ts) == [data |-> data, ttl_ts |-> ttl_ts]
NoValue == [data |-> NoneBytes, ttl_ts |-> NoneInt]

\* Faulty variant: an entry is served whatever its age.
IsExpired_Never(v, t) == FALSE

\* Faulty variant: the expiry test allows one second too many.
IsExpired_LateByOne(v, t) == v.ttl_ts + 1 < t

\* Faulty variant: an entry counts as expired from its expiry second on.
IsExpired_AtBoundary(v, t) == v.ttl_ts <= t

\* _get's test `v.ttl_ts < self._now`.
IsExpired(v, t) == v.ttl_ts < t

\* Faulty variant: every read pops the entry it looked up.
MemAfterLookup_DeleteOnRead(s, k, t) == DictDel(s, {k})

\* Faulty variant: the value found is returned whether or not it has expired.
MemLookup_IgnoresExpiry(s, k, t) == IF k \in DOMAIN s THEN s[k] ELSE NoValue

\* _get(key): the value returned, and the store it leaves (an expired entry
\* is deleted by the read that finds it).
MemLookup(s, k, t) ==
    IF k \in DOMAIN s /\ ~IsExpired(s[k], t) THEN s[k] ELSE NoValue
MemAfterLookup(s, k, t) ==
    IF k \in DOMAIN s /\ IsExpired(s[k], t) THEN DictDel(s, {k}) ELSE s

\* Faulty variant: the absolute expiry is returned, not the seconds left.
MemTtl_Absolute(s, k, t) ==
    IF MemLookup(s, k, t) # NoValue THEN MemLookup(s, k, t).ttl_ts ELSE 0

\* get_with_ttl's first component: v.ttl_ts - now, or 0 with None.
MemTtl(s, k, t) ==
    IF MemLookup(s, k, t) # NoValue THEN MemLookup(s, k, t).ttl_ts - t ELSE 0

\* Faulty variant: the expiry is the time of the write, expire is dropped.
MemExpiry_IgnoresExpire(t, expire) == t

\* set: self._store[key] = Value(value, self._now + (expire or 0))
MemExpiry(t, expire) == t + OrInt(expire, 0)
\* Faulty variant: set sweeps the expired entries out of the map.
MemSet_Sweeps(s, k, data, expire, t) ==
    DictSet([x \in {y \in DOMAIN s : ~IsExpired(s[y], t)} |-> s[x]],
            k, Value(data, MemExpiry(t, expire)))

\* Faulty variant: set replaces the data of a resident entry and keeps its
\* expiry.
MemSet_KeepsExpiry(s, k, data, expire, t) ==
    IF k \in DOMAIN s THEN DictSet(s, k, Value(data, s[k].ttl_ts))
    ELSE DictSet(s, k, Value(data, MemExpiry(t, expire)))

\* Faulty variant: set keeps an entry that is already there (setdefault).
MemSet_KeepsFirst(s, k, data, expire, t) ==
    IF k \in DOMAIN s THEN s ELSE DictSet(s, k, Value(data, MemExpiry(t, expire)))

MemSet(s, k, data, expire, t) == DictSet(s, k, Value(data, MemExpiry(t, expire)))

\* Faulty variant: the namespace is matched with a ":" appended, as the Redis
\* backend's pattern does.
MemClearKeys_WithSeparator(s, namespace, key) ==
    IF TruthyStr(namespace)
    THEN {k \in DOMAIN s : StartsWith(k, namespace \o <<":">>)}
    ELSE IF TruthyStr(key) THEN {k \in DOMAIN s : k = key}
    ELSE DOMAIN s

\* clear: the keys removed by clear(namespace, key).
MemClearKeys(s, namespace, key) ==
    IF TruthyStr(namespace) THEN {k \in DOMAIN s : StartsWith(k, namespace)}
    ELSE IF TruthyStr(key) THEN {k \in DOMAIN s : k = key}
    ELSE DOMAIN s
MemClear(s, namespace, key) == DictDel(s, MemClearKeys(s, namespace, key))
MemClearCount(s, namespace, key) == Cardinality(MemClearKeys(s, namespace, key))

\* ------------------------------------------------------------------ coders
\* A Python value is [tag, items, kids]: its type, its content as text tokens
\* (a number is one token) and, for a list or dict that holds special values,
\* those values.  Bytes are sequences of text tokens too.
PyValue(tag, items, kids) == [tag |-> tag, items |-> items, kids |-> kids]
PyInt(n) == PyValue("int", <<ToString(n)>>, <<>>)
PyStr(s) == PyValue("str", s, <<>>)
PyList(s) == PyValue("list", s, <<>>)
PyTuple(s) == PyValue("tuple", s, <<>>)
PyNone == PyValue("NoneType", <<>>, <<>>)
\* a dict of one item, items = <<key, value>>
PyDict(s) == PyValue("dict", s, <<>>)
\* a list that contains itself
PyCyclic == PyValue("cyclic_list", <<>>, <<>>)
\* Decimal(text); date and datetime by the parts of their isoformat: the
\* date, the time and, for an aware datetime, the UTC offset.
PyDecimal(text) == PyValue("Decimal", <<text>>, <<>>)
PyDate(d) == PyValue("date", <<d>>, <<>>)
PyDatetime(d, t) == PyValue("datetime", <<d, t>>, <<>>)
PyDatetimeTz(d, t, tz) == PyValue("datetime", <<d, t, tz>>, <<>>)
\* a list of the values kids; a dict with the string keys keys[i] -> kids[i]
PyListOf(kids) == PyValue("list", <<>>, kids)
PyDictOf(keys, kids) == PyValue("dict", keys, kids)

\* isinstance(o, cls): datetime.datetime is a subclass of datetime.date.
IsInstance(o, cls) ==
    IF cls = "date" THEN o.tag \in {"date", "datetime"} ELSE o.tag = cls

Inner(b) == SubSeq(b, 2, Len(b) - 1)

\* The place of the first token tok in s (0 if there is none).
FirstIndex(s, tok) ==
    IF \E i \in 1..Len(s) : s[i] = tok
    THEN CHOOSE i \in 1..Len(s) : s[i] = tok /\ \A j \in 1..(i - 1) : s[j] # tok
    ELSE 0

\* The JSON object JsonEncoder.default returns for a special value:
\* {"val": <text>, "_spec_type": <type>}.
SpecObject(val, type) == <<"{", "val">> \o val \o <<"_spec_type", type, "}">>

\* Faulty variant: date is tested before datetime, so that a datetime, being
\* a date too, is written as a date.
JsonDefault_DateFirst(o) ==
    IF IsInstance(o, "date") THEN SpecObject(o.items, "date")
    ELSE IF IsInstance(o, "datetime") THEN SpecObject(o.items, "datetime")
    ELSE IF IsInstance(o, "Decimal") THEN SpecObject(o.items, "decimal")
    ELSE <<"\"">> \o o.items \o <<"\"">>

\* JsonEncoder.default(o): datetime is tested before date, then Decimal;
\* anything else becomes its str.
JsonDefault(o) ==
    IF IsInstance(o, "datetime") THEN SpecObject(o.items, "datetime")
    ELSE IF IsInstance(o, "date") THEN SpecObject(o.items, "date")
    ELSE IF IsInstance(o, "Decimal") THEN SpecObject(o.items, "decimal")
    ELSE <<"\"">> \o o.items \o <<"\"">>

\* JsonCoder.encode: json.dumps(value, cls=JsonEncoder).encode().  json writes
\* a tuple as it writes a list, and asks default for what it does not know.
RECURSIVE JsonEncode(_)
RECURSIVE JsonElements(_)
RECURSIVE JsonMembers(_, _)
JsonElements(kids) ==
    IF kids = <<>> THEN <<>> ELSE JsonEncode(Head(kids)) \o JsonElements(Tail(kids))
JsonMembers(keys, kids) ==
    IF kids = <<>> THEN <<>>
    ELSE <<Head(keys)>> \o JsonEncode(Head(kids)) \o JsonMembers(Tail(keys), Tail(kids))
JsonEncode(v) ==
    CASE v.tag = "int" -> v.items
      [] v.tag = "str" -> <<"\"">> \o v.items \o <<"\"">>
      [] v.tag \in {"list", "tuple"} -> <<"[">> \o v.items \o JsonElements(v.kids) \o <<"]">>
      [] v.tag = "dict" /\ v.kids = <<>> -> <<"{">> \o v.items \o <<"}">>
      [] v.tag = "dict" /\ v.kids # <<>> -> <<"{">> \o JsonMembers(v.items, v.kids) \o <<"}">>
      [] v.tag \in {"datetime", "date", "Decimal"} -> JsonDefault(v)
      [] OTHER -> <<"null">>

\* json.dumps raises ValueError("Circular reference detected") on a value that
\* contains itself; JsonEncoder.default turns every other unknown object into
\* its str.
JsonEncodeFails(v) == v.tag = "cyclic_list"

\* CONVERTERS: the _spec_type values object_hook knows.
CONVERTERS == {"decimal", "date", "datetime"}

\* What object_hook raised instead of returning a value.
UnknownSpecType == PyValue("<TypeError>", <<>>, <<>>)

\* CONVERTERS[type](val).  Without pendulum: Decimal(val),
\* datetime.fromisoformat(val) (midnight for a text that is a date only) and
\* datetime.fromisoformat(val).date().  With pendulum, "date" and "datetime"
\* are both pendulum.parse(val, exact=True): a date for a date text, else a
\* datetime, in UTC when the text has no offset.
Convert(type, val, pendulum) ==
    IF type = "decimal" THEN PyValue("Decimal", val, <<>>)
    ELSE IF pendulum
    THEN IF Len(val) = 1 THEN PyDate(val[1])
         ELSE IF Len(val) = 2 THEN PyDatetimeTz(val[1], val[2], "+00:00")
         ELSE PyValue("datetime", val, <<>>)
    ELSE IF type = "datetime"
    THEN IF Len(val) = 1 THEN PyDatetime(val[1], "00:00:00")
         ELSE PyValue("datetime", val, <<>>)
    ELSE PyDate(val[1])

\* object_hook(obj) on a dict without nested values, members = its items in
\* the order json read them: the dict itself if it has no "_spec_type" (here:
\* as its last member, where JsonEncoder writes it), else the converted
\* obj["val"], else TypeError.
ObjectHook(members, pendulum) ==
    LET n == Len(members)
        type == IF n >= 2 /\ members[n - 1] = "_spec_type" THEN members[n] ELSE ""
    IN  IF type = "" THEN PyDict(members)
        ELSE IF type \in CONVERTERS /\ members[1] = "val"
        THEN Convert(type, SubSeq(members, 2, n - 2), pendulum)
        ELSE UnknownSpecType

\* json.loads over the elements of an array and the members of an object:
\* a nested object is read to its closing brace and handed to object_hook.
RECURSIVE ParseElements(_, _)
ParseElements(toks, pendulum) ==
    IF toks = <<>> THEN [items |-> <<>>, kids |-> <<>>]
    ELSE IF Head(toks) = "{"
    THEN LET j == FirstIndex(toks, "}")
             rest == ParseElements(SubSeq(toks, j + 1, Len(toks)), pendulum)
         IN  [items |-> rest.items,
              kids |-> <<ObjectHook(SubSeq(toks, 2, j - 1), pendulum)>> \o rest.kids]
    ELSE LET rest == ParseElements(Tail(toks), pendulum)
         IN  [items |-> <<Head(toks)>> \o rest.items, kids |-> rest.kids]
RECURSIVE ParseMembers(_, _)
ParseMembers(toks, pendulum) ==
    IF toks = <<>> THEN [items |-> <<>>, kids |-> <<>>]
    ELSE LET j == FirstIndex(toks, "}")
             rest == ParseMembers(SubSeq(toks, j + 1, Len(toks)), pendulum)
         IN  [items |-> <<Head(toks)>> \o rest.items,
              kids |-> <<ObjectHook(SubSeq(toks, 3, j - 1), pendulum)>> \o rest.kids]

\* JsonCoder.decode: json.loads(value.decode(), object_hook=object_hook), in
\* a process where pendulum could or could not be imported.
JsonLoads(b, pendulum) ==
    CASE b = <<"null">> -> PyNone
      [] Head(b) = "[" ->
            LET p == ParseElements(Inner(b), pendulum) IN PyValue("list", p.items, p.kids)
      [] Head(b) = "\"" -> PyStr(Inner(b))
      [] Head(b) = "{" /\ FirstIndex(Inner(b), "{") = 0 -> ObjectHook(Inner(b), pendulum)
      [] Head(b) = "{" /\ FirstIndex(Inner(b), "{") # 0 ->
            LET p == ParseMembers(Inner(b), pendulum) IN PyValue("dict", p.items, p.kids)
      [] OTHER -> PyValue("int", b, <<>>)
JsonDecode(b) == JsonLoads(b, FALSE)

\* object_hook raises TypeError(f"Unknown {_spec_type}") on a dict whose
\* "_spec_type" is not in CONVERTERS, at the top or nested.
JsonDecodeFails(b) ==
    LET v == JsonLoads(b, FALSE)
    IN  \/ v = UnknownSpecType
        \/ \E i \in DOMAIN v.kids : v.kids[i] = UnknownSpecType

\* str(value), as text tokens.
RECURSIVE PyStrOf(_)
RECURSIVE PyStrOfAll(_)
PyStrOfAll(kids) ==
    IF kids = <<>> THEN <<>> ELSE PyStrOf(Head(kids)) \o PyStrOfAll(Tail(kids))
PyStrOf(v) ==
    CASE v.tag \in {"int", "str", "Decimal", "date", "datetime"} -> v.items
      [] v.tag = "list" -> <<"[">> \o v.items \o PyStrOfAll(v.kids) \o <<"]">>
      [] v.tag = "tuple" -> <<"(">> \o v.items \o <<")">>
      [] v.tag = "dict" -> <<"{">> \o v.items \o PyStrOfAll(v.kids) \o <<"}">>
      [] OTHER -> <<"None">>

\* StringCoder: str(value).encode() / value.decode(): decode yields a str,
\* whatever the value was.
StringEncode(v) == PyStrOf(v)
StringDecode(b) == PyStr(b)

\* PickleCoder: pickle.dumps / pickle.loads keep type and content; a nested
\* value is framed by "<" and ">".
RECURSIVE PickleFrames(_)
PickleFrames(kids) ==
    IF kids = <<>> THEN <<>>
    ELSE <<"<", Head(kids).tag>> \o Head(kids).items \o <<">">> \o PickleFrames(Tail(kids))
PickleEncode(v) == <<"pickle", v.tag>> \o v.items \o PickleFrames(v.kids)
RECURSIVE UnpickleFrames(_)
UnpickleFrames(toks) ==
    IF toks = <<>> THEN <<>>
    ELSE LET j == FirstIndex(toks, ">")
         IN  <<PyValue(toks[2], SubSeq(toks, 3, j - 1), <<>>)>>
             \o UnpickleFrames(SubSeq(toks, j + 1, Len(toks)))
PickleDecode(b) ==
    LET body == SubSeq(b, 3, Len(b))
        k == FirstIndex(body, "<")
    IN  IF k = 0 THEN PyValue(b[2], body, <<>>)
        ELSE PyValue(b[2], SubSeq(body, 1, k - 1),
                     UnpickleFrames(SubSeq(body, k, Len(body))))

\* Whether coder.encode(v) / coder.decode(b) raises.  pickle and str take
\* every value modelled here; StringCoder.decode and pickle.loads take every
\* byte string their own encode wrote.
EncodeFails(coder, v) == coder = "JsonCoder" /\ JsonEncodeFails(v)
DecodeFails(coder, b) == coder = "JsonCoder" /\ JsonDecodeFails(b)

Encode(coder, v) ==
    CASE coder = "StringCoder" -> StringEncode(v)
      [] coder = "PickleCoder" -> PickleEncode(v)
      [] OTHER -> JsonEncode(v)

\* coder.decode(b) in a process where pendulum is, or is not, installed.
DecodeWith(coder, b, pendulum) ==
    CASE coder = "StringCoder" -> StringDecode(b)
      [] coder = "PickleCoder" -> PickleDecode(b)
      [] OTHER -> JsonLoads(b, pendulum)
Decode(coder, b) == DecodeWith(coder, b, FALSE)

\* ------------------------------------------------------------ key builders
\* repr of the positional-argument tuple: "(5,)", "(5, 10)", "()".
RECURSIVE JoinAtoms(_)
JoinAtoms(s) ==
    IF s = <<>> THEN ""
    ELSE IF Len(s) = 1 THEN ToString(s[1])
    ELSE ToString(s[1]) \o ", " \o JoinAtoms(Tail(s))
ArgsRepr(args) ==
    IF Len(args) = 1 THEN "(" \o ToString(args[1]) \o ",)"
    ELSE "(" \o JoinAtoms(args) \o ")"

\* hashlib.md5(...).hexdigest(): a collision-free digest, one token of the key.
Md5(text) == "md5<" \o text \o ">"

\* A callable as the key builders see it: __module__, __name__, and the
\* __qualname__ that tells same-named callables of one module apart.
Callable(module, name, qualname) == [module |-> module, name |-> name, qualname |-> qualname]

\* repr of the keyword-argument dict, a sequence of <<name, value>> pairs in
\* the order the caller wrote them: "{'a': 1, 'b': 2}", "{}".
RECURSIVE JoinItems(_)
JoinItems(kw) ==
    IF kw = <<>> THEN ""
    ELSE "'" \o kw[1][1] \o "': " \o ToString(kw[1][2])
         \o (IF Len(kw) = 1 THEN "" ELSE ", " \o JoinItems(Tail(kw)))
KwargsRepr(kwargs) == "{" \o JoinItems(kwargs) \o "}"

\* default_key_builder(func, namespace, args=args, kwargs=kwargs):
\* f"{namespace}:{md5(f'{func.__module__}:{func.__name__}:{args}:{kwargs}')}".
default_key_builder(func, namespace, args, kwargs) ==
    namespace \o <<":">>
    \o <<Md5(func.module \o ":" \o func.name \o ":" \o ArgsRepr(args)
             \o ":" \o KwargsRepr(kwargs))>>

\* default_key_builder for a call without keyword arguments.
DefaultKey(module, name, namespace, args) ==
    default_key_builder(Callable(module, name, name), namespace, args, <<>>)

\* simple_key_builder: ":".join(filter(None, [namespace, name, str(args)])).
SimpleKey(name, namespace, args) ==
    (IF namespace = <<>> THEN <<>> ELSE namespace \o <<":">>)
    \o <<name>>
    \o (IF args = <<>> THEN <<>> ELSE <<":", ArgsRepr(args)>>)

\* What a key builder call returns: awaitable says the result has __await__,
\* type is the type of the (resolved) result, key its text.  The builders
\* other than the two shipped ones are caller-supplied KeyBuilder objects.
KeyBuilders == {"default_key_builder", "simple_key_builder", "async_key_builder",
                "int_key_builder", "async_int_key_builder"}
NoKeyBuilder == "<None>"
BuildKey(kb, module, name, namespace, args) ==
    [awaitable |-> kb \in {"async_key_builder", "async_int_key_builder"},
     type |-> IF kb \in {"int_key_builder", "async_int_key_builder"} THEN "int" ELSE "str",
     key |-> IF kb = "simple_key_builder" THEN SimpleKey(name, namespace, args)
             ELSE DefaultKey(module, name, namespace, args)]

\* The namespace the decorator hands to the key builder:
\* f"{prefix}:{namespace}" if namespace else prefix.
CombinedNamespace(prefix, namespace) ==
    IF namespace # <<>> THEN prefix \o <<":">> \o namespace ELSE prefix


\* ------------------------------------------------------------------- state
VARIABLES
    now,        \* InMemoryBackend._now: int(time.time())
    store,      \* InMemoryBackend._store: key -> Value
    remote,     \* the key space of the Redis server behind RedisBackend
    ret,        \* what the last direct backend / manager operation returned
    managers,   \* the CacheManager objects constructed so far (handle = index)
    instance,   \* CacheManager._instance: a handle, or 0 for None
    deco,       \* per decorated callable: the arguments given to cache(...)
    cells,      \* per decorated callable: the nonlocal cells expire, key_builder
    calls,      \* per task: the frame of inner(*args, **kwargs)
    ncalls,     \* decorated calls started so far
    setlog,     \* history: key -> the last set on it that no clear has undone
    inited,     \* history: the last init's configuration and returned handle
    memo,       \* history: (callable, args) -> the entry its last miss wrote
    started,    \* history: (callable, args) -> calls started with them
    lock,       \* InMemoryBackend._lock: the task holding it, or 0 when free
    inits       \* per thread: the frame of CacheManager.init(...), and history

vars == <<now, store, remote, ret, managers, instance, deco, cells, calls,
          ncalls, setlog, inited, memo, started, lock, inits>>

backendVars == <<now, store, remote, ret, setlog, lock>>
managerVars == <<managers, instance, inited, inits>>
callVars == <<deco, cells, calls, ncalls, memo, started>>

Ret(op, key, data, ttl, num) == [op |-> op, key |-> key, data |-> data, ttl |-> ttl, num |-> num]

\* ---------------------------------------------------------- the clock
Tick ==
    /\ now < MaxClock
    /\ now' = now + 1
    /\ UNCHANGED <<store, remote, ret, setlog, lock>>
    /\ UNCHANGED managerVars
    /\ UNCHANGED callVars

\* ------------------------------------- InMemoryBackend, called directly
\* The keys, values and expirations the direct operations are tried with.
BackendKeys == {<<"n", "1", ":", "a">>, <<"n", "1", "0", ":", "a">>, <<"n", "2", ":", "a">>}
SetInput(k, data, expire) == [key |-> k, data |-> data, expire |-> expire]
SetInputs ==
    {SetInput(<<"n", "1", ":", "a">>, data, expire) :
        data \in {<<"v1">>, <<"v2">>}, expire \in {NoneInt, 0, 1, 2}}
    \cup {SetInput(<<"n", "1", "0", ":", "a">>, <<"v1">>, 2),
          SetInput(<<"n", "2", ":", "a">>, <<"v2">>, 1)}
ClearInput(namespace, key) == [namespace |-> namespace, key |-> key]
ClearInputs ==
    {ClearInput(<<"n", "1">>, NoneStr), ClearInput(<<"n", "2">>, NoneStr),
     ClearInput(NoneStr, <<"n", "1", ":", "a">>), ClearInput(<<>>, <<>>),
     ClearInput(NoneStr, NoneStr), ClearInput(<<"n", "1">>, <<"n", "2", ":", "a">>)}

\* await backend.set(key, value, expire)
BackendSet(k, data, expire) ==
    /\ store' = MemSet(store, k, data, expire, now)
    /\ setlog' = DictSet(setlog, k, [data |-> data, at |-> now, expire |-> expire])
    /\ ret' = Ret("set", k, NoneBytes, 0, 0)
    /\ UNCHANGED <<now, remote, lock>>
    /\ UNCHANGED managerVars
    /\ UNCHANGED callVars

\* await backend.get(key)
BackendGet(k) ==
    /\ store' = MemAfterLookup(store, k, now)
    /\ ret' = Ret("get", k, MemLookup(store, k, now).data, 0, 0)
    /\ UNCHANGED <<now, remote, setlog, lock>>
    /\ UNCHANGED managerVars
    /\ UNCHANGED callVars

\* await backend.get_with_ttl(key)
BackendGetWithTtl(k) ==
    /\ store' = MemAfterLookup(store, k, now)
    /\ ret' = Ret("get_with_ttl", k, MemLookup(store, k, now).data, MemTtl(store, k, now), 0)
    /\ UNCHANGED <<now, remote, setlog, lock>>
    /\ UNCHANGED managerVars
    /\ UNCHANGED callVars

\* await backend.clear(namespace, key)
BackendClear(namespace, key) ==
    /\ store' = MemClear(store, namespace, key)
    /\ setlog' = DictDel(setlog, MemClearKeys(store, namespace, key))
    /\ ret' = Ret("clear", namespace, NoneBytes, 0, MemClearCount(store, namespace, key))
    /\ UNCHANGED <<now, remote, lock>>
    /\ UNCHANGED managerVars
    /\ UNCHANGED callVars


\* ------------------------------------------------------------ CacheManager
\* CacheManager.__init__: the object's fields; the coder class is instantiated.
Construct(cfg) ==
    [backend |-> cfg.backend, prefix |-> cfg.prefix, expire |-> cfg.expire,
     coder |-> cfg.coder, key_builder |-> cfg.key_builder,
     enable_status |-> cfg.enable_status]

\* The configurations init is called with.
CfgA == [backend |-> "mem", prefix |-> <<"p">>, expire |-> 2, coder |-> "JsonCoder",
         key_builder |-> "default_key_builder", enable_status |-> TRUE]
CfgB == [backend |-> "redis", prefix |-> <<"q">>, expire |-> 1, coder |-> "JsonCoder",
         key_builder |-> "simple_key_builder", enable_status |-> FALSE]
InitConfigs == {CfgA, CfgB}
NoInit == [active |-> FALSE, cfg |-> CfgA, handle |-> 0]

\* Faulty variant: init keeps a singleton that already exists.
Installed_KeepsFirst(old, fresh) == IF old # 0 THEN old ELSE fresh

\* The value init leaves in cls._instance, given the old one and the new object.
Installed(old, fresh) == fresh

\* CacheManager.get_instance() and the accessors of the manager with handle h.
get_instance == instance
get_backend(h) == managers[h].backend
get_prefix(h) == managers[h].prefix
get_expire(h) == managers[h].expire
get_coder(h) == managers[h].coder
get_key_builder(h) == managers[h].key_builder
get_enable_status(h) == managers[h].enable_status

\* The backend object of the manager with handle h: every init is handed a
\* backend constructed for it (backend=InMemoryBackend()).
BackendOf(h) == h

\* The map the InMemoryBackend object b reads and writes: _store is an
\* attribute of the class that no instance rebinds, so every instance's
\* self._store is the one map.
StoreOf(b) == store

\* CacheManager.init(backend, prefix, expire, coder, key_builder, enable_status)
ManagerInit(cfg) ==
    /\ Len(managers) < MaxManagers
    /\ managers' = Append(managers, Construct(cfg))
    /\ instance' = Installed(instance, Len(managers) + 1)
    /\ ret' = Ret("init", NoneStr, NoneBytes, 0, Installed(instance, Len(managers) + 1))
    /\ inited' = [active |-> TRUE, cfg |-> cfg, handle |-> ret'.num]
    /\ UNCHANGED <<now, store, remote, setlog, lock, inits>>
    /\ UNCHANGED callVars

\* CacheManager.reset()
ManagerReset ==
    /\ instance' = 0
    /\ inited' = NoInit
    /\ ret' = Ret("reset", NoneStr, NoneBytes, 0, 0)
    /\ UNCHANGED <<now, store, remote, setlog, lock, managers, inits>>
    /\ UNCHANGED callVars

\* ------------------------------------------ init, statement by statement
\* The threads that call CacheManager.init, and the frame of one such call:
\* the arguments, the object cls(...) allocated (self) and how many of the
\* assignments of __init__ have run.
InitThreads == {1, 2}
IdleInit == [pc |-> "idle", cfg |-> CfgA, self |-> 0, nset |-> 0, id |-> 0]

\* The assignments of __init__, in the order they are written.
FieldOrder == <<"backend", "prefix", "expire", "coder", "key_builder", "enable_status">>
ManagerFields == {FieldOrder[i] : i \in 1..Len(FieldOrder)}

\* No init call in progress; by[h] names, for each attribute of the object
\* with handle h, the init call that assigned it (history).
NoInits == [frames |-> [t \in InitThreads |-> IdleInit], by |-> <<>>, n |-> 0]

\* Faulty variant: the object is stored into cls._instance as soon as it is
\* allocated.
Constructed_OnAllocation(obj) == TRUE

\* __init__ has returned: every attribute of obj is assigned.
Constructed(obj) == DOMAIN obj = ManagerFields

\* cls(...) is entered by thread t: the object is allocated, no attribute
\* of it assigned yet.
InitCall(t, cfg) ==
    /\ inits.frames[t].pc = "idle"
    /\ Len(managers) < MaxManagers
    /\ managers' = Append(managers, <<>>)
    /\ inits' = [frames |-> [inits.frames EXCEPT ![t] =
                                [pc |-> "construct", cfg |-> cfg,
                                 self |-> Len(managers) + 1, nset |-> 0,
                                 id |-> inits.n + 1]],
                 by |-> Append(inits.by, <<>>),
                 n |-> inits.n + 1]
    /\ UNCHANGED <<instance, inited>>
    /\ UNCHANGED backendVars
    /\ UNCHANGED callVars

\* The next assignment of __init__: self._<field> = <argument>.
SetField(t) ==
    LET fr == inits.frames[t]
        field == FieldOrder[fr.nset + 1]
    IN  /\ fr.pc = "construct"
        /\ fr.nset < Len(FieldOrder)
        /\ managers' = [managers EXCEPT ![fr.self] = (field :> fr.cfg[field]) @@ @]
        /\ inits' = [inits EXCEPT !.frames[t].nset = @ + 1,
                                  !.by[fr.self] = (field :> fr.id) @@ @]
        /\ UNCHANGED <<instance, inited>>
        /\ UNCHANGED backendVars
        /\ UNCHANGED callVars

\* cls._instance = <the object cls(...) returned>
Publish(t) ==
    LET fr == inits.frames[t]
    IN  /\ fr.pc = "construct"
        /\ Constructed(managers[fr.self])
        /\ instance' = Installed(instance, fr.self)
        /\ inited' = [active |-> TRUE, cfg |-> fr.cfg, handle |-> fr.self]
        /\ inits' = [inits EXCEPT !.frames[t].pc = "return"]
        /\ UNCHANGED managers
        /\ UNCHANGED backendVars
        /\ UNCHANGED callVars

\* return cls._instance: the class attribute is read again.
InitReturn(t) ==
    /\ inits.frames[t].pc = "return"
    /\ ret' = Ret("init", NoneStr, NoneBytes, 0, instance)
    /\ inits' = [inits EXCEPT !.frames[t] = IdleInit]
    /\ UNCHANGED <<managers, instance, inited>>
    /\ UNCHANGED <<now, store, remote, setlog, lock>>
    /\ UNCHANGED callVars

\* CacheManager.get_instance() called by a reader.
GetInstance ==
    /\ ret' = Ret("get_instance", NoneStr, NoneBytes, 0, get_instance)
    /\ UNCHANGED managerVars
    /\ UNCHANGED <<now, store, remote, setlog, lock>>
    /\ UNCHANGED callVars

\* Threads calling init, reset and get_instance, interleaved statement by
\* statement.
NextAtomic ==
    \/ \E t \in InitThreads, cfg \in InitConfigs : InitCall(t, cfg)
    \/ \E t \in InitThreads : SetField(t)
    \/ \E t \in InitThreads : Publish(t)
    \/ \E t \in InitThreads : InitReturn(t)
    \/ ManagerReset
    \/ GetInstance

\* ---------------------------------------------------- decorated callables
Funcs == {"f"}
Args == {<<5>>, <<10>>}
NoCoder == "<None>"
\* The coders shipped in coders.py.
Coders == {"JsonCoder", "PickleCoder", "StringCoder"}

\* The values the wrapped callables return.
Results == {PyInt(10), PyTuple(<<"1", "2">>)}

\* cache(expire, coder, key_builder, namespace, cache_manager) applied to a
\* callable of module m: sync or async.
Decoration(is_async, expire, key_builder, namespace) ==
    [module |-> "m", is_async |-> is_async, expire |-> expire, coder |-> NoCoder,
     key_builder |-> key_builder, namespace |-> namespace, cache_manager |-> 0,
     \* the values the wrapped callable returns
     returns |-> Results]
PlainDecoration == Decoration(FALSE, 2, NoKeyBuilder, <<>>)
DecorationSet ==
    {PlainDecoration,
     Decoration(TRUE, 2, NoKeyBuilder, <<>>),
     Decoration(TRUE, NoneInt, "async_key_builder", <<"n">>),
     Decoration(FALSE, 2, "int_key_builder", <<>>),
     Decoration(TRUE, 2, "async_int_key_builder", <<>>)}

Pending == [kind |-> "pending", val |-> PyNone, err |-> ""]
Return(v) == [kind |-> "return", val |-> v, err |-> ""]
Raise(e) == [kind |-> "raise", val |-> PyNone, err |-> e]

\* The arguments of a key builder call.
KeyCall(func, namespace, args, kwargs) ==
    [func |-> func, namespace |-> namespace, args |-> args, kwargs |-> kwargs]

\* The frame of a call not yet made.
IdleCall ==
    [pc |-> "idle", func |-> "f", args |-> <<>>, manager |-> 0, coder |-> NoCoder,
     backend |-> "", key |-> BuildKey(NoKeyBuilder, "", "", <<>>, <<>>),
     ttl |-> 0, cached |-> NoneBytes, result |-> PyNone, out |-> Pending,
     kb_calls |-> 0, gets |-> 0, invoked |-> 0, fargs |-> <<>>, encodes |-> 0,
     sets |-> 0,
     \* history: what happened to this call
     no_manager |-> FALSE, get_failed |-> FALSE, set_failed |-> FALSE,
     func_raised |-> "",
     \* history: the key builder called and the expire handed to backend.set
     kb |-> NoKeyBuilder, set_expire |-> NoneInt,
     \* history: "encode" or "decode" if that call of the coder raised
     coder_failed |-> "",
     \* history: where the task was suspended when it was cancelled
     cancelled |-> "",
     \* history: what the key builder was called with
     built |-> KeyCall(Callable("", "", ""), <<>>, <<>>, <<>>),
     \* history: whether pendulum was installed where the coder decoded
     pendulum |-> FALSE]
Tasks == {1, 2}

\* ----------------------------------------------------------- initial state
\* Everything but the managers: empty backends, the callables decorated,
\* no call made.
InitCalls(decorated) ==
    /\ now = 0
    /\ store = [x \in {} |-> NoValue]
    /\ remote = [x \in {} |-> NoValue]
    /\ ret = Ret("none", NoneStr, NoneBytes, 0, 0)
    /\ deco \in decorated
    /\ cells = [f \in DOMAIN deco |->
                   [expire |-> deco[f].expire, key_builder |-> deco[f].key_builder]]
    /\ calls = [c \in Tasks |-> IdleCall]
    /\ ncalls = 0
    /\ setlog = [x \in {} |-> [data |-> NoneBytes, at |-> 0, expire |-> NoneInt]]
    /\ memo = [x \in {} |-> [val |-> PyNone, at |-> 0, expire |-> NoneInt, manager |-> 0]]
    /\ started = [x \in {} |-> 0]
    /\ lock = 0
    /\ inits = NoInits

\* The same for the one callable f, decorated in one of the given ways.
InitRest(decorations) == InitCalls([Funcs -> decorations])

\* No manager yet (installed = {<<>>}), or one installed by init.
InitWith(decorations, installed) ==
    /\ managers \in installed
    /\ instance = Len(managers)
    /\ inited = IF managers = <<>> THEN NoInit
                ELSE [active |-> TRUE, cfg |-> managers[1], handle |-> 1]
    /\ InitRest(decorations)

\* A fresh process: no manager, nothing stored.
InitBackend == InitWith({PlainDecoration}, {<<>>})

NextBackend ==
    \/ Tick
    \/ \E i \in SetInputs : BackendSet(i.key, i.data, i.expire)
    \/ \E k \in BackendKeys : BackendGet(k)
    \/ \E k \in BackendKeys : BackendGetWithTtl(k)
    \/ \E i \in ClearInputs : BackendClear(i.namespace, i.key)

\* The in-memory backend under direct set / get / get_with_ttl / clear.
SpecBackend == InitBackend /\ [][NextBackend]_vars

\* A backend after set("n1:a", b"v1", 2) and set("n2:a", b"v1", 3) at second
\* 0, and the sets that follow on the first key: another value, with every
\* kind of expire.
ResidentKey == <<"n", "1", ":", "a">>
OtherKey == <<"n", "2", ":", "a">>
OverwriteInputs == {SetInput(ResidentKey, <<"v2">>, e) : e \in {NoneInt, 0, 1, 2}}
InitOverwrite ==
    /\ now = 0
    /\ store = (ResidentKey :> Value(<<"v1">>, MemExpiry(0, 2)))
               @@ (OtherKey :> Value(<<"v1">>, MemExpiry(0, 3)))
    /\ setlog = (ResidentKey :> [data |-> <<"v1">>, at |-> 0, expire |-> 2])
                @@ (OtherKey :> [data |-> <<"v1">>, at |-> 0, expire |-> 3])
    /\ ret = Ret("set", OtherKey, NoneBytes, 0, 0)
    /\ remote = [x \in {} |-> NoValue]
    /\ lock = 0
    /\ managers = <<>>
    /\ instance = 0
    /\ inited = NoInit
    /\ inits = NoInits
    /\ deco = [f \in Funcs |-> PlainDecoration]
    /\ cells = [f \in Funcs |-> [expire |-> deco[f].expire, key_builder |-> deco[f].key_builder]]
    /\ calls = [c \in Tasks |-> IdleCall]
    /\ ncalls = 0
    /\ memo = [x \in {} |-> [val |-> PyNone, at |-> 0, expire |-> NoneInt, manager |-> 0]]
    /\ started = [x \in {} |-> 0]

NextOverwrite ==
    \/ Tick
    \/ \E i \in OverwriteInputs : BackendSet(i.key, i.data, i.expire)
    \/ \E k \in {ResidentKey, OtherKey} : BackendGet(k)
    \/ \E k \in {ResidentKey, OtherKey} : BackendGetWithTtl(k)

SpecOverwrite == InitOverwrite /\ [][NextOverwrite]_vars

\* ------------------------------------------------------------ RedisBackend
\* The server drops a key once its expiry is reached; an expiry of NoneInt
\* (set without ex) never is.
RemoteLookup(r, k, t) ==
    IF k \in DOMAIN r /\ (r[k].ttl_ts = NoneInt \/ t < r[k].ttl_ts) THEN r[k].data
    ELSE NoneBytes
\* pipe.ttl(key): -2 for no key, -1 for no expiry, else the seconds left.
RemoteTtl(r, k, t) ==
    IF RemoteLookup(r, k, t) = NoneBytes THEN -2
    ELSE IF r[k].ttl_ts = NoneInt THEN -1 ELSE r[k].ttl_ts - t
\* self.redis.set(key, value, ex=expire)
RemoteSet(r, k, data, expire, t) ==
    DictSet(r, k, Value(data, IF expire = NoneInt THEN NoneInt ELSE t + expire))
\* clear: KEYS '{namespace}:*' deleted, or delete(key), or nothing.
RemoteClearKeys(r, namespace, key) ==
    IF TruthyStr(namespace) THEN {k \in DOMAIN r : StartsWith(k, namespace \o <<":">>)}
    ELSE IF TruthyStr(key) THEN {k \in DOMAIN r : k = key}
    ELSE {}

\* A networked backend's call may raise (connection, protocol); the in-memory
\* backend's does not.
BackendFails(backend) == IF backend = "redis" THEN BOOLEAN ELSE {FALSE}

\* ------------------------------------ MemcachedBackend and DynamoDBBackend
\* `remote` is the key space of the server behind whichever networked
\* backend the manager was given.
\* set: redis ex=expire; memcached exptime=expire or 0 (0: no expiry);
\* dynamodb writes the ttl attribute only `if expire`.
ServerSet(kind, r, k, data, expire, t) ==
    IF kind = "redis" THEN RemoteSet(r, k, data, expire, t)
    ELSE DictSet(r, k, Value(data, IF TruthyInt(expire) THEN t + expire ELSE NoneInt))

\* get: redis and memcached do not return an expired entry; DynamoDBBackend.get
\* returns the item as long as the table still holds it, its ttl not looked at.
ServerLookup(kind, r, k, t) ==
    IF kind = "dynamodb" THEN (IF k \in DOMAIN r THEN r[k].data ELSE NoneBytes)
    ELSE RemoteLookup(r, k, t)

\* The entries of the server a get can still return.
ServerLive(kind, r, t) == {k \in DOMAIN r : ServerLookup(kind, r, k, t) # NoneBytes}

\* Faulty variant: a namespace clear that is not supported does nothing and
\* returns its count like any other.
ClearRaises_Never(kind, namespace, key) == FALSE

\* clear(namespace=...) on memcached and dynamodb: raise NotImplementedError.
ClearRaises(kind, namespace, key) ==
    kind \in {"memcached", "dynamodb"} /\ TruthyStr(namespace)

\* The keys clear(namespace, key) deletes on the server.
ServerClearKeys(kind, r, namespace, key) ==
    IF kind = "redis" THEN RemoteClearKeys(r, namespace, key)
    ELSE IF ~TruthyStr(namespace) /\ TruthyStr(key) THEN {k \in DOMAIN r : k = key}
    ELSE {}

\* What clear(namespace, key) returns when it does not raise.  Redis: the Lua
\* script of the namespace branch has no return statement, so eval gives
\* None; delete(key) gives the number of keys the server removed.  Memcached
\* and DynamoDB: 1 after a delete, whatever the server held.
ClearResult(kind, s, r, namespace, key, t) ==
    IF kind = "mem" THEN MemClearCount(s, namespace, key)
    ELSE IF kind = "redis"
    THEN IF TruthyStr(namespace) THEN NoneInt
         ELSE IF TruthyStr(key)
         THEN Cardinality(RemoteClearKeys(r, namespace, key) \cap ServerLive(kind, r, t))
         ELSE 0
    ELSE IF TruthyStr(key) THEN 1 ELSE 0

\* ------------------------------------------------- cache.wrapper.inner
\* What the wrapped callable f does when invoked: returns a value or raises.
FuncOutcomes(f) == {Return(v) : v \in deco[f].returns} \cup {Raise("ValueError")}

Count(d, x) == IF x \in DOMAIN d THEN d[x] ELSE 0

\* Faulty variant: the manager is fixed when the callable is decorated, the
\* process-wide one of that moment (none yet) for lack of an explicit one.
ResolveManager_AtDecoration(f) == deco[f].cache_manager

\* manager = cache_manager or CacheManager.get_instance()
ResolveManager(f) ==
    IF deco[f].cache_manager # 0 THEN deco[f].cache_manager ELSE get_instance

\* Faulty variant: the missing manager is not detected, inner goes on to the
\* wrapped callable.
NotConfigured_FallsThrough(frame) == [frame EXCEPT !.pc = "func"]

\* if manager is None: raise RuntimeError(...)
NotConfigured(frame) == [frame EXCEPT !.pc = "done", !.out = Raise("RuntimeError")]

\* Faulty variant: the assertion is missing.
KeyCheck_NoAssert(frame) == [frame EXCEPT !.pc = "get"]

\* assert isinstance(cache_key, str), then on to backend.get_with_ttl
KeyCheck(frame) ==
    IF frame.key.type = "str" THEN [frame EXCEPT !.pc = "get"]
    ELSE [frame EXCEPT !.pc = "done", !.out = Raise("AssertionError")]

\* inner, from its entry to the key builder's return (or the first raise).
CallStart(c, f, args) ==
    /\ calls[c].pc \in {"idle", "done"}
    /\ \A d \in Tasks : d < c => calls[d].pc \notin {"idle", "done"}
    /\ ncalls < MaxCalls
    /\ ncalls' = ncalls + 1
    /\ started' = DictSet(started, <<f, args>>, Count(started, <<f, args>>) + 1)
    /\ LET h == ResolveManager(f)
           fresh == [IdleCall EXCEPT !.func = f, !.args = args, !.manager = h,
                                     !.no_manager = (deco[f].cache_manager = 0
                                                      /\ instance = 0)]
       IN  IF h = 0
           THEN /\ calls' = [calls EXCEPT ![c] = NotConfigured(fresh)]
                /\ cells' = cells
           ELSE LET coder == IF deco[f].coder # NoCoder THEN deco[f].coder ELSE get_coder(h)
                    expire == OrInt(cells[f].expire, get_expire(h))
                    kb == IF cells[f].key_builder # NoKeyBuilder
                          THEN cells[f].key_builder ELSE get_key_builder(h)
                    key == BuildKey(kb, deco[f].module, f,
                                    CombinedNamespace(get_prefix(h), deco[f].namespace), args)
                    frame == [fresh EXCEPT !.coder = coder, !.backend = get_backend(h),
                                           !.key = key, !.kb_calls = 1, !.kb = kb,
                                           !.built = KeyCall(
                                               Callable(deco[f].module, f, f),
                                               CombinedNamespace(get_prefix(h),
                                                                 deco[f].namespace),
                                               args, <<>>)]
                IN  /\ cells' = [cells EXCEPT ![f] = [expire |-> expire, key_builder |-> kb]]
                    /\ calls' = [calls EXCEPT ![c] =
                                    IF key.awaitable THEN [frame EXCEPT !.pc = "await_key"]
                                    ELSE KeyCheck(frame)]
    /\ UNCHANGED <<deco, memo>>
    /\ UNCHANGED backendVars
    /\ UNCHANGED managerVars

\* cache_key = await cache_key, then the assert
AwaitKey(c) ==
    /\ calls[c].pc = "await_key"
    /\ calls' = [calls EXCEPT ![c] = KeyCheck(calls[c])]
    /\ UNCHANGED <<deco, cells, ncalls, memo, started>>
    /\ UNCHANGED backendVars
    /\ UNCHANGED managerVars

\* Faulty variant: no except clause, the backend's error leaves inner.
GetFailed_Propagates(frame) ==
    [frame EXCEPT !.gets = 1, !.pc = "done", !.out = Raise("ConnectionError")]

\* except Exception: ttl, cached = 0, None
GetFailed(frame) ==
    [frame EXCEPT !.ttl = 0, !.cached = NoneBytes, !.gets = 1, !.pc = "func"]

\* if cached is None: (miss) ... else: return actual_coder.decode(cached)
\* Faulty variant: `if not cached` in place of `if cached is None`.
Missed_IfFalsy(cached) == cached = NoneBytes \/ cached = <<>>

\* if cached is None:  # Cache miss
Missed(cached) == cached = NoneBytes

HitOrMiss(frame) ==
    IF Missed(frame.cached) THEN [frame EXCEPT !.pc = "func"]
    ELSE IF DecodeFails(frame.coder, frame.cached)
    THEN [frame EXCEPT !.pc = "done", !.out = Raise("TypeError: Unknown _spec_type"),
                       !.coder_failed = "decode"]
    ELSE [frame EXCEPT !.pc = "done", !.out = Return(Decode(frame.coder, frame.cached))]

\* ttl, cached = await backend.get_with_ttl(cache_key), and the hit's return:
\* what the call does once the backend's lock is its own.
InnerGet(c) ==
    /\ \E fail \in BackendFails(calls[c].backend) :
          LET fr == calls[c]
              k == fr.key.key
              mem == fr.backend = "mem"
              got == IF mem
                     THEN [fr EXCEPT !.ttl = MemTtl(store, k, now),
                                     !.cached = MemLookup(store, k, now).data, !.gets = 1]
                     ELSE [fr EXCEPT !.ttl = RemoteTtl(remote, k, now),
                                     !.cached = RemoteLookup(remote, k, now), !.gets = 1]
          IN  /\ calls' = [calls EXCEPT ![c] =
                              [IF fail THEN GetFailed(fr) ELSE HitOrMiss(got)
                                  EXCEPT !.get_failed = fail]]
              /\ store' = IF mem /\ ~fail THEN MemAfterLookup(store, k, now) ELSE store
    /\ UNCHANGED <<now, remote, ret, setlog>>
    /\ UNCHANGED <<deco, cells, ncalls, memo, started>>
    /\ UNCHANGED managerVars

\* The same as one step: the lock is free, taken, and free again at the end
\* (no await stands between `async with self._lock` and the end of its block).
GetWithTtl(c) ==
    /\ calls[c].pc = "get"
    /\ lock = 0
    /\ InnerGet(c)
    /\ UNCHANGED lock

\* Faulty variant: the callable's error is swallowed and None goes on to be
\* cached.
AfterFunc_SwallowsError(frame, o) ==
    IF o.kind = "raise"
    THEN [frame EXCEPT !.pc = "set", !.result = PyNone]
    ELSE [frame EXCEPT !.pc = "set", !.result = o.val]

\* The frame once the wrapped callable has returned or raised: a raise leaves
\* inner at once.
AfterFunc(frame, o) ==
    IF o.kind = "raise"
    THEN [frame EXCEPT !.pc = "done", !.out = o]
    ELSE [frame EXCEPT !.pc = "set", !.result = o.val]

\* history: the error the wrapped callable raised, if it did
Raised(o) == IF o.kind = "raise" THEN o.err ELSE ""

\* result = func(*args, **kwargs) for a sync callable; for an async one the
\* call of func and the suspension in `await`.
InvokeFunc(c) ==
    /\ calls[c].pc = "func"
    /\ LET fr == [calls[c] EXCEPT !.invoked = @ + 1, !.fargs = calls[c].args]
       IN  \E o \in IF deco[fr.func].is_async THEN {Pending} ELSE FuncOutcomes(fr.func) :
              calls' = [calls EXCEPT ![c] =
                           IF o = Pending THEN [fr EXCEPT !.pc = "in_func"]
                           ELSE [AfterFunc(fr, o) EXCEPT !.func_raised = Raised(o)]]
    /\ UNCHANGED <<deco, cells, ncalls, memo, started>>
    /\ UNCHANGED backendVars
    /\ UNCHANGED managerVars

\* result = await func(*args, **kwargs) resumes
FuncReturn(c) ==
    /\ calls[c].pc = "in_func"
    /\ \E o \in FuncOutcomes(calls[c].func) :
          calls' = [calls EXCEPT ![c] =
                       [AfterFunc(calls[c], o) EXCEPT !.func_raised = Raised(o)]]
    /\ UNCHANGED <<deco, cells, ncalls, memo, started>>
    /\ UNCHANGED backendVars
    /\ UNCHANGED managerVars

\* Faulty variant: no except clause around backend.set.
AfterSet_Propagates(frame, fail) ==
    [frame EXCEPT !.pc = "done", !.encodes = 1, !.sets = 1,
                  !.out = IF fail THEN Raise("ConnectionError") ELSE Return(frame.result)]

\* The frame after `await backend.set(...)` and its except clause:
\* return cast(R, result), whether or not set raised.
AfterSet(frame, fail) ==
    [frame EXCEPT !.pc = "done", !.out = Return(frame.result), !.encodes = 1,
                  !.sets = 1]

\* Faulty variant: the cancellation is caught around the callable and inner
\* goes on to cache None.
Cancelled_StillCaches(frame) == [frame EXCEPT !.pc = "set", !.result = PyNone]

\* The frame of a task cancelled while suspended in an await of inner:
\* CancelledError is raised at the await and leaves inner (it is not an
\* Exception, and the awaits of the key and of the callable are in no try).
Cancelled(frame) == [frame EXCEPT !.pc = "done", !.out = Raise("CancelledError")]

\* task.cancel() on the task running call c, suspended in `await cache_key`
\* or in `await func(*args, **kwargs)`.
Cancel(c) ==
    /\ calls[c].pc \in {"await_key", "in_func"}
    /\ calls' = [calls EXCEPT ![c] = [Cancelled(calls[c]) EXCEPT !.cancelled = calls[c].pc]]
    /\ UNCHANGED <<deco, cells, ncalls, memo, started>>
    /\ UNCHANGED backendVars
    /\ UNCHANGED managerVars

\* to_cache = actual_coder.encode(result) raises: the error leaves inner,
\* backend.set is not reached.
EncodeFailed(frame) ==
    [frame EXCEPT !.pc = "done", !.out = Raise("ValueError: Circular reference"),
                  !.encodes = 1, !.coder_failed = "encode"]

\* to_cache = actual_coder.encode(result); await backend.set(cache_key,
\* to_cache, expire); return result.  expire is the decorator's nonlocal cell.
InnerSet(c) ==
    /\ \E fail \in BackendFails(calls[c].backend) :
          LET fr == calls[c]
              k == fr.key.key
              mem == fr.backend = "mem"
              to_cache == Encode(fr.coder, fr.result)
              expire == cells[fr.func].expire
              raised == EncodeFails(fr.coder, fr.result)
              wrote == ~raised /\ ~fail
          IN  /\ calls' = [calls EXCEPT ![c] =
                              IF raised THEN EncodeFailed(fr)
                              ELSE [AfterSet(fr, fail) EXCEPT !.set_failed = fail,
                                                              !.set_expire = expire]]
              /\ store' = IF mem /\ wrote THEN MemSet(store, k, to_cache, expire, now)
                          ELSE store
              /\ remote' = IF ~mem /\ wrote THEN RemoteSet(remote, k, to_cache, expire, now)
                           ELSE remote
              /\ setlog' = IF mem /\ wrote
                           THEN DictSet(setlog, k, [data |-> to_cache, at |-> now,
                                                    expire |-> expire])
                           ELSE setlog
              /\ memo' = IF mem /\ wrote
                         THEN DictSet(memo, <<fr.func, fr.args>>,
                                      [val |-> fr.result, at |-> now, expire |-> expire,
                                       manager |-> fr.manager])
                         ELSE memo
    /\ UNCHANGED <<now, ret>>
    /\ UNCHANGED <<deco, cells, ncalls, started>>
    /\ UNCHANGED managerVars

\* The same as one step, the lock free before and after.
SetAndReturn(c) ==
    /\ calls[c].pc = "set"
    /\ lock = 0
    /\ InnerSet(c)
    /\ UNCHANGED lock

\* The statement `await manager.clear(namespace, key)` on the active manager:
\* the count it returns is dropped by the caller.
\* What clear does to the backend of the active manager.
ClearEffect(namespace, key) ==
    /\ instance # 0
    /\ LET mem == get_backend(instance) = "mem"
       IN  /\ store' = IF mem THEN MemClear(store, namespace, key) ELSE store
           /\ remote' = IF mem THEN remote
                        ELSE DictDel(remote, RemoteClearKeys(remote, namespace, key))
           /\ setlog' = IF mem THEN DictDel(setlog, MemClearKeys(store, namespace, key))
                        ELSE DictDel(setlog, RemoteClearKeys(remote, namespace, key))
    /\ memo' = [x \in {} |-> memo[x]]
    /\ UNCHANGED <<now, ret>>
    /\ UNCHANGED managerVars

InnerClear(namespace, key) ==
    /\ ClearEffect(namespace, key)
    /\ UNCHANGED <<deco, cells, calls, ncalls, started>>

ManagerClear(namespace, key) ==
    /\ lock = 0
    /\ InnerClear(namespace, key)
    /\ UNCHANGED lock

\* ------------------------------------- CacheManager.get / CacheManager.set
\* The keys, values and expirations Manager.set and Manager.get are tried with.
ManagerKeys == {<<"k", "1">>, <<"k", "2">>}
ManagerSetInputs ==
    {SetInput(k, data, expire) :
        k \in ManagerKeys, data \in {<<"v1">>, <<"v2">>}, expire \in {NoneInt, 0, 3}}

\* The key Manager.get / Manager.set hand to the backend: the caller's key.
ManagerKey(h, k) == k

\* Faulty variant: the caller's expire is handed on as it is.
ManagerSetExpire_NoDefault(h, expire) == expire

\* The expiration Manager.set hands to the backend: expire or self._expire.
ManagerSetExpire(h, expire) == OrInt(expire, get_expire(h))

\* await manager.set(key, value, expire) on the active manager
ManagerSet(k, data, expire) ==
    /\ instance # 0
    /\ LET mem == get_backend(instance) = "mem"
           bk == ManagerKey(instance, k)
           e == ManagerSetExpire(instance, expire)
       IN  /\ store' = IF mem THEN MemSet(store, bk, data, e, now) ELSE store
           /\ remote' = IF mem THEN remote
                        ELSE ServerSet(get_backend(instance), remote, bk, data, e, now)
           /\ setlog' = DictSet(setlog, bk, [data |-> data, at |-> now, expire |-> e])
    /\ ret' = Ret("manager.set", k, NoneBytes, 0, 0)
    /\ UNCHANGED <<now, lock>>
    /\ UNCHANGED callVars
    /\ UNCHANGED managerVars

\* await manager.get(key) on the active manager
ManagerGet(k) ==
    /\ instance # 0
    /\ LET mem == get_backend(instance) = "mem"
           bk == ManagerKey(instance, k)
       IN  /\ store' = IF mem THEN MemAfterLookup(store, bk, now) ELSE store
           /\ ret' = Ret("manager.get", k,
                         IF mem THEN MemLookup(store, bk, now).data
                         ELSE ServerLookup(get_backend(instance), remote, bk, now), 0, 0)
    /\ UNCHANGED <<now, remote, setlog, lock>>
    /\ UNCHANGED callVars
    /\ UNCHANGED managerVars

\* The state after CacheManager.init(cfg), for each cfg in InitConfigs.
Init == InitWith(DecorationSet, {<<Construct(cfg)>> : cfg \in InitConfigs})

Next ==
    \/ Tick
    \/ \E c \in Tasks, f \in Funcs, args \in Args : CallStart(c, f, args)
    \/ \E c \in Tasks : AwaitKey(c)
    \/ \E c \in Tasks : GetWithTtl(c)
    \/ \E c \in Tasks : InvokeFunc(c)
    \/ \E c \in Tasks : FuncReturn(c)
    \/ \E c \in Tasks : SetAndReturn(c)
    \/ ManagerClear(NoneStr, NoneStr)

\* Decorated calls by concurrent tasks under one installed manager, with
\* clear and the clock.
Spec == Init /\ [][Next]_vars

\* One task's decorated calls while the manager is initialised, replaced and
\* reset.
NextLifecycle ==
    \/ \E cfg \in InitConfigs : ManagerInit(cfg)
    \/ ManagerReset
    \/ \E f \in Funcs, args \in Args : CallStart(1, f, args)
    \/ AwaitKey(1)
    \/ GetWithTtl(1)
    \/ InvokeFunc(1)
    \/ FuncReturn(1)
    \/ SetAndReturn(1)

SpecLifecycle == InitWith(DecorationSet, {<<>>}) /\ [][NextLifecycle]_vars

\* A manager constructed directly, CacheManager(backend, ...), and handed to
\* cache(cache_manager=...): it is not the process-wide one.
CfgE == [backend |-> "mem", prefix |-> <<"x">>, expire |-> 3, coder |-> "JsonCoder",
         key_builder |-> "default_key_builder", enable_status |-> TRUE]
ExplicitManager == 1
ResolveDecorations ==
    {PlainDecoration,
     [PlainDecoration EXCEPT !.cache_manager = ExplicitManager],
     Decoration(TRUE, NoneInt, "async_key_builder", <<"n">>),
     [Decoration(TRUE, NoneInt, "async_key_builder", <<"n">>)
         EXCEPT !.cache_manager = ExplicitManager]}

\* One task's decorated calls, with and without an explicit manager, while
\* the process-wide manager is initialised and reset.
InitResolve ==
    /\ managers = <<Construct(CfgE)>>
    /\ instance = 0
    /\ inited = NoInit
    /\ InitRest(ResolveDecorations)

SpecResolve == InitResolve /\ [][NextLifecycle]_vars

\* Callables whose results the JSON coder cannot encode, or cannot decode
\* again: a list that contains itself, and the dict {"_spec_type": "x"}.
CoderResults == {PyInt(10), PyDict(<<"_spec_type", "x">>), PyCyclic}
CoderDecorations ==
    {[Decoration(FALSE, 2, NoKeyBuilder, <<>>) EXCEPT !.returns = CoderResults],
     [Decoration(TRUE, 2, "async_key_builder", <<"n">>) EXCEPT !.returns = CoderResults]}

NextCoder ==
    \/ Tick
    \/ \E f \in Funcs, args \in Args : CallStart(1, f, args)
    \/ AwaitKey(1)
    \/ GetWithTtl(1)
    \/ InvokeFunc(1)
    \/ FuncReturn(1)
    \/ SetAndReturn(1)

\* One task's decorated calls of such callables under an installed manager.
SpecCoder ==
    InitWith(CoderDecorations, {<<Construct(cfg)>> : cfg \in InitConfigs})
    /\ [][NextCoder]_vars

\* Two callables f and g of one module decorated with different namespaces,
\* cache(expire=2, namespace=...): none, "n", "nb" and "m".
NamespaceFuncs == {"f", "g"}
Namespaces == {<<>>, <<"n">>, <<"n", "b">>, <<"m">>}
NamespaceDecorations ==
    {d \in [NamespaceFuncs -> {Decoration(FALSE, 2, NoKeyBuilder, ns) : ns \in Namespaces}] :
        d["f"].namespace # d["g"].namespace}

\* One task's calls of f and g and clears of the combined namespaces, under
\* a manager with the in-memory backend, prefix "p" and the default key
\* builder.
NextNamespace ==
    \/ \E f \in NamespaceFuncs, args \in Args : CallStart(1, f, args)
    \/ GetWithTtl(1)
    \/ InvokeFunc(1)
    \/ SetAndReturn(1)
    \/ \E ns \in Namespaces :
          ManagerClear(CombinedNamespace(get_prefix(instance), ns), NoneStr)

InitNamespace ==
    /\ managers = <<Construct(CfgA)>>
    /\ instance = 1
    /\ inited = [active |-> TRUE, cfg |-> CfgA, handle |-> 1]
    /\ InitCalls(NamespaceDecorations)

SpecNamespace == InitNamespace /\ [][NextNamespace]_vars

\* Callables decorated with cache(expire=0), cache(expire=1) and cache():
\* an override of no expiration, a positive override, and none.
ExpireDecorations ==
    {Decoration(FALSE, e, NoKeyBuilder, <<>>) : e \in {0, 1, NoneInt}}
    \cup {Decoration(TRUE, 1, "async_key_builder", <<"n">>)}

\* One task's calls of them, and the clock, under a manager with the
\* in-memory backend and a default expiration of 2.
SpecExpire ==
    InitWith(ExpireDecorations, {<<Construct(CfgA)>>}) /\ [][NextCoder]_vars

\* Callables decorated with each shipped coder, cache(expire=2, coder=...),
\* that return an int, a str, a tuple, or a falsy value: None, 0, "".
TransparentResults ==
    {PyInt(10), PyStr(<<"a">>), PyTuple(<<"1", "2">>), PyNone, PyInt(0), PyStr(<<>>)}
TransparentDecorations ==
    {[Decoration(FALSE, 2, NoKeyBuilder, <<>>)
         EXCEPT !.coder = cd, !.returns = TransparentResults] : cd \in Coders}
    \cup {[Decoration(TRUE, 2, "async_key_builder", <<"n">>)
              EXCEPT !.coder = "StringCoder", !.returns = TransparentResults]}

\* One task's calls of them under a manager with the in-memory backend.
SpecTransparent ==
    InitWith(TransparentDecorations, {<<Construct(CfgA)>>}) /\ [][NextCoder]_vars

\* Async callables, one with an async key builder.
AsyncDecorations ==
    {Decoration(TRUE, 2, NoKeyBuilder, <<>>),
     Decoration(TRUE, NoneInt, "async_key_builder", <<"n">>)}

NextCancel ==
    \/ Tick
    \/ \E c \in Tasks, f \in Funcs, args \in Args : CallStart(c, f, args)
    \/ \E c \in Tasks : AwaitKey(c)
    \/ \E c \in Tasks : GetWithTtl(c)
    \/ \E c \in Tasks : InvokeFunc(c)
    \/ \E c \in Tasks : FuncReturn(c)
    \/ \E c \in Tasks : SetAndReturn(c)
    \/ \E c \in Tasks : Cancel(c)

\* Concurrent decorated calls of async callables whose tasks may be cancelled.
SpecCancel ==
    InitWith(AsyncDecorations, {<<Construct(cfg)>> : cfg \in InitConfigs})
    /\ [][NextCancel]_vars

\* Manager.set, Manager.get and Manager.clear on an installed manager, with
\* the clock.
NextManager ==
    \/ Tick
    \/ \E i \in ManagerSetInputs : ManagerSet(i.key, i.data, i.expire)
    \/ \E k \in ManagerKeys : ManagerGet(k)
    \/ ManagerClear(NoneStr, NoneStr)

SpecManager ==
    InitWith({PlainDecoration}, {<<Construct(cfg)>> : cfg \in InitConfigs})
    /\ [][NextManager]_vars

\* A fresh process whose threads call init, reset and get_instance.
SpecAtomic == InitWith({PlainDecoration}, {<<>>}) /\ [][NextAtomic]_vars

\* ------------------------------------------ default_key_builder, by itself
\* The callables, namespaces, positional and keyword arguments the default
\* key builder is tried with: two static methods named get of two classes of
\* one module, a function of another name, and keyword arguments written in
\* two orders.
KeyCallables ==
    {Callable("m", "get", "A.get"), Callable("m", "get", "B.get"), Callable("m", "f", "f")}
KeyNamespaces == {<<"p">>, <<"p", ":", "n">>}
KeyArgs == {<<>>, <<5>>}
KeyKwargs == {<<>>, << <<"a", 1>>, <<"b", 2>> >>, << <<"b", 2>>, <<"a", 1>> >>}

\* cache_key = key_builder(func, namespace, args=args, kwargs=kwargs) with
\* the default key builder, as task c's call of it.
BuildDefaultKey(c, func, namespace, args, kwargs) ==
    /\ calls' = [calls EXCEPT ![c] =
                    [IdleCall EXCEPT
                        !.built = KeyCall(func, namespace, args, kwargs),
                        !.kb = "default_key_builder",
                        !.kb_calls = 1,
                        !.key = [awaitable |-> FALSE, type |-> "str",
                                 key |-> default_key_builder(func, namespace, args, kwargs)]]]
    /\ UNCHANGED <<deco, cells, ncalls, memo, started>>
    /\ UNCHANGED backendVars
    /\ UNCHANGED managerVars

NextKeys ==
    \E c \in Tasks, func \in KeyCallables, namespace \in KeyNamespaces,
       args \in KeyArgs, kwargs \in KeyKwargs :
        BuildDefaultKey(c, func, namespace, args, kwargs)

\* Two tasks' calls of the default key builder, on every pair of inputs.
SpecKeys == InitWith({PlainDecoration}, {<<>>}) /\ [][NextKeys]_vars

\* ------------------------------------------------- the coders, by themselves

\* The values the coders are tried with: plain ones, the special ones alone,
\* and lists and dicts that hold special ones (the dict is the payload of
\* test_json_coder_special_types).
SpecialValues ==
    {PyDecimal("123.45"), PyDate("2024-01-02"), PyDatetime("2024-01-02", "03:04:05"),
     PyDatetimeTz("2024-01-02", "03:04:05", "+02:00")}
CoderValues ==
    {PyInt(10), PyStr(<<"a">>), PyNone, PyList(<<"1", "2">>), PyTuple(<<"1", "2">>),
     PyDict(<<"key", "value">>), PyDict(<<"_spec_type", "x">>)}
    \cup SpecialValues
    \cup {PyListOf(<<PyDecimal("123.45"), PyDate("2024-01-02")>>),
          PyDictOf(<<"ts", "d", "amount">>,
                   <<PyDatetime("2024-01-02", "03:04:05"), PyDate("2024-01-02"),
                     PyDecimal("123.45")>>),
          PyDictOf(<<"ts">>, <<PyDatetimeTz("2024-01-02", "03:04:05", "+02:00")>>)}

\* encoded = coder.encode(v), for a value the coder can encode
CoderEncode(c, coder, v) ==
    /\ ~EncodeFails(coder, v)
    /\ calls' = [calls EXCEPT ![c] =
                    [IdleCall EXCEPT !.pc = "encoded", !.coder = coder, !.result = v,
                                     !.cached = Encode(coder, v), !.encodes = 1]]
    /\ UNCHANGED <<deco, cells, ncalls, memo, started>>
    /\ UNCHANGED backendVars
    /\ UNCHANGED managerVars

\* decoded = coder.decode(encoded), in a process with or without pendulum
CoderDecode(c, pendulum) ==
    /\ calls[c].pc = "encoded"
    /\ calls' = [calls EXCEPT ![c] =
                    [calls[c] EXCEPT
                        !.pc = "decoded",
                        !.pendulum = pendulum,
                        !.out = IF DecodeFails(calls[c].coder, calls[c].cached)
                                THEN Raise("TypeError: Unknown _spec_type")
                                ELSE Return(DecodeWith(calls[c].coder, calls[c].cached,
                                                       pendulum))]]
    /\ UNCHANGED <<deco, cells, ncalls, memo, started>>
    /\ UNCHANGED backendVars
    /\ UNCHANGED managerVars

NextRoundTrip ==
    \/ \E c \in Tasks, coder \in Coders, v \in CoderValues : CoderEncode(c, coder, v)
    \/ \E c \in Tasks, pendulum \in BOOLEAN : CoderDecode(c, pendulum)

\* encode then decode, with each coder on each value.
SpecRoundTrip == InitWith({PlainDecoration}, {<<>>}) /\ [][NextRoundTrip]_vars

\* ----------------------------------------- clear, on each kind of backend
CfgC == [backend |-> "memcached", prefix |-> <<"p">>, expire |-> 2, coder |-> "JsonCoder",
         key_builder |-> "default_key_builder", enable_status |-> TRUE]
CfgD == [backend |-> "dynamodb", prefix |-> <<"p">>, expire |-> 2, coder |-> "JsonCoder",
         key_builder |-> "default_key_builder", enable_status |-> TRUE]
ClearConfigs == {CfgA, CfgB, CfgC, CfgD}

\* The keys, namespaces and sets the clears are tried with: a key under
\* "n:", a key under "m:", and the empty key.
ClearKeys == {<<"n", ":", "a">>, <<"m", ":", "a">>, <<>>}
ClearNamespaces == {NoneStr, <<>>, <<"n">>}
ClearSetInputs == {SetInput(k, <<"v1">>, NoneInt) : k \in ClearKeys}
ClearCallInputs ==
    {ClearInput(namespace, key) :
        namespace \in ClearNamespaces, key \in ClearKeys \cup {NoneStr}}

\* The error of a clear the backend does not support.
ClearError == "manager.clear raises NotImplementedError"

\* n = await manager.clear(namespace, key) on the active manager: the
\* backend's result, or its error, is the caller's.
ClearCall(namespace, key) ==
    /\ instance # 0
    /\ lock = 0
    /\ LET kind == get_backend(instance)
           mem == kind = "mem"
           raises == ClearRaises(kind, namespace, key)
           gone == IF mem THEN MemClearKeys(store, namespace, key)
                   ELSE IF raises THEN {}
                   ELSE ServerClearKeys(kind, remote, namespace, key)
       IN  /\ store' = IF mem THEN MemClear(store, namespace, key) ELSE store
           /\ remote' = IF mem THEN remote ELSE DictDel(remote, gone)
           /\ setlog' = DictDel(setlog, gone)
           /\ ret' = IF raises THEN Ret(ClearError, namespace, NoneBytes, 0, 0)
                     ELSE Ret("manager.clear", namespace, NoneBytes, 0,
                              ClearResult(kind, store, remote, namespace, key, now))
    /\ UNCHANGED <<now, lock>>
    /\ UNCHANGED callVars
    /\ UNCHANGED managerVars

\* DynamoDB's own deletion of an item whose ttl has passed, some time after.
TtlDelete(k) ==
    /\ instance # 0
    /\ get_backend(instance) = "dynamodb"
    /\ k \in DOMAIN remote
    /\ remote[k].ttl_ts # NoneInt
    /\ remote[k].ttl_ts <= now
    /\ remote' = DictDel(remote, {k})
    /\ UNCHANGED <<now, store, ret, setlog, lock>>
    /\ UNCHANGED callVars
    /\ UNCHANGED managerVars

NextClear ==
    \/ Tick
    \/ \E i \in ClearSetInputs : ManagerSet(i.key, i.data, i.expire)
    \/ \E k \in ClearKeys : ManagerGet(k)
    \/ \E i \in ClearCallInputs : ClearCall(i.namespace, i.key)
    \/ \E k \in ClearKeys : TtlDelete(k)

\* Sets, gets and clears through a manager on each of the four backends.
SpecClear ==
    InitWith({PlainDecoration}, {<<Construct(cfg)>> : cfg \in ClearConfigs})
    /\ [][NextClear]_vars

\* --------------------------------- InMemoryBackend._lock, acquired and released
\* The caller of manager.clear(), as a holder of the lock.
ClearTask == Cardinality(Tasks) + 1

\* Where a call is inside an `async with self._lock` block of the backend.
LockedPcs == {"get_locked", "set_locked", "clear_locked"}

\* Faulty variant: the block is left with the lock still held.
Released_Never(holder) == holder

\* The lock once the `async with self._lock` block is left: free.
Released(holder) == 0

\* get_with_ttl enters `async with self._lock`: the call waits until the lock
\* is free and takes it.
GetAcquire(c) ==
    /\ calls[c].pc = "get"
    /\ calls[c].backend = "mem"
    /\ lock = 0
    /\ lock' = c
    /\ calls' = [calls EXCEPT ![c].pc = "get_locked"]
    /\ UNCHANGED <<now, store, remote, ret, setlog>>
    /\ UNCHANGED <<deco, cells, ncalls, memo, started>>
    /\ UNCHANGED managerVars

\* The block of get_with_ttl: _get, _get_ttl, and the lock released; inner
\* goes on with what was read.
GetLocked(c) ==
    /\ calls[c].pc = "get_locked"
    /\ InnerGet(c)
    /\ lock' = Released(lock)

\* set enters `async with self._lock`, the result already encoded.
SetAcquire(c) ==
    /\ calls[c].pc = "set"
    /\ calls[c].backend = "mem"
    /\ ~EncodeFails(calls[c].coder, calls[c].result)
    /\ lock = 0
    /\ lock' = c
    /\ calls' = [calls EXCEPT ![c].pc = "set_locked"]
    /\ UNCHANGED <<now, store, remote, ret, setlog>>
    /\ UNCHANGED <<deco, cells, ncalls, memo, started>>
    /\ UNCHANGED managerVars

\* The block of set: the assignment to _store, and the lock released; inner
\* returns the result.
SetLocked(c) ==
    /\ calls[c].pc = "set_locked"
    /\ InnerSet(c)
    /\ lock' = Released(lock)

\* clear enters `async with self._lock`.
ClearAcquire ==
    /\ instance # 0
    /\ get_backend(instance) = "mem"
    /\ lock = 0
    /\ lock' = ClearTask
    /\ UNCHANGED <<now, store, remote, ret, setlog>>
    /\ UNCHANGED callVars
    /\ UNCHANGED managerVars

\* The block of clear, and the lock released.
ClearLocked(namespace, key) ==
    /\ lock = ClearTask
    /\ InnerClear(namespace, key)
    /\ lock' = Released(lock)

NextLock ==
    \/ Tick
    \/ \E c \in Tasks, f \in Funcs, args \in Args : CallStart(c, f, args)
    \/ \E c \in Tasks : AwaitKey(c)
    \/ \E c \in Tasks : GetAcquire(c)
    \/ \E c \in Tasks : GetLocked(c)
    \/ \E c \in Tasks : InvokeFunc(c)
    \/ \E c \in Tasks : FuncReturn(c)
    \/ \E c \in Tasks : SetAcquire(c)
    \/ \E c \in Tasks : SetLocked(c)
    \/ ClearAcquire
    \/ ClearLocked(NoneStr, NoneStr)

\* A task calls manager.clear(): it is about to enter clear's
\* `async with self._lock`.
ClearStart(c) ==
    /\ calls[c].pc \in {"idle", "done"}
    /\ \A d \in Tasks : d < c => calls[d].pc \notin {"idle", "done"}
    /\ instance # 0
    /\ get_backend(instance) = "mem"
    /\ calls' = [calls EXCEPT ![c] = [IdleCall EXCEPT !.pc = "clear", !.manager = instance,
                                                      !.backend = "mem"]]
    /\ UNCHANGED <<deco, cells, ncalls, memo, started>>
    /\ UNCHANGED backendVars
    /\ UNCHANGED managerVars

\* The task's clear waits until the lock is free and takes it.
ClearEnter(c) ==
    /\ calls[c].pc = "clear"
    /\ lock = 0
    /\ lock' = c
    /\ calls' = [calls EXCEPT ![c].pc = "clear_locked"]
    /\ UNCHANGED <<now, store, remote, ret, setlog>>
    /\ UNCHANGED <<deco, cells, ncalls, memo, started>>
    /\ UNCHANGED managerVars

\* The block of the task's clear, the lock released, and the count returned.
ClearLeave(c, namespace, key) ==
    /\ calls[c].pc = "clear_locked"
    /\ ClearEffect(namespace, key)
    /\ lock' = Released(lock)
    /\ calls' = [calls EXCEPT ![c].pc = "done",
                              ![c].out = Return(PyInt(MemClearCount(store, namespace, key)))]
    /\ UNCHANGED <<deco, cells, ncalls, started>>

\* Decorated calls and clear calls made by concurrent tasks: calls f(5) of
\* an async callable with an async key builder, which contend for one key.
WaiterArgs == {<<5>>}
WaiterDecorations == {Decoration(TRUE, NoneInt, "async_key_builder", <<"n">>)}
NextWaiters ==
    \/ Tick
    \/ \E c \in Tasks, f \in Funcs, args \in WaiterArgs : CallStart(c, f, args)
    \/ \E c \in Tasks : AwaitKey(c)
    \/ \E c \in Tasks : GetAcquire(c)
    \/ \E c \in Tasks : GetLocked(c)
    \/ \E c \in Tasks : InvokeFunc(c)
    \/ \E c \in Tasks : FuncReturn(c)
    \/ \E c \in Tasks : SetAcquire(c)
    \/ \E c \in Tasks : SetLocked(c)
    \/ \E c \in Tasks : ClearStart(c)
    \/ \E c \in Tasks : ClearEnter(c)
    \/ \E c \in Tasks : ClearLeave(c, NoneStr, NoneStr)

\* The event loop runs every task that can run: a task that is not waiting
\* for the lock takes its next step (the key builders and the callables
\* terminate), and asyncio.Lock wakes its waiters first come first served,
\* so a task waiting for a lock that is released again and again gets it.
\* Tasks need not start calls, and the clock need not advance.
FairTask(c) ==
    /\ WF_vars(AwaitKey(c))
    /\ SF_vars(GetAcquire(c))
    /\ WF_vars(GetLocked(c))
    /\ WF_vars(InvokeFunc(c))
    /\ WF_vars(FuncReturn(c))
    /\ SF_vars(SetAcquire(c))
    /\ WF_vars(SetLocked(c))
    /\ SF_vars(ClearEnter(c))
    /\ WF_vars(ClearLeave(c, NoneStr, NoneStr))

SpecWaiters ==
    /\ InitWith(WaiterDecorations, {<<Construct(CfgA)>>})
    /\ [][NextWaiters]_vars
    /\ \A c \in Tasks : FairTask(c)

\* Concurrent decorated calls and clears on the in-memory backend, each
\* backend operation in two steps: the lock taken, then the block run and
\* the lock released.  Any task may run between the two.
SpecLock ==
    InitWith(AsyncDecorations, {<<Construct(CfgA)>>})
    /\ [][NextLock]_vars

\* ------------------------------------------------------------- properties
\* ret is the result of a direct get / get_with_ttl on key k.
ReadOf(k) == ret.op \in {"get", "get_with_ttl"} /\ ret.key = k

\* The last set on k was given a positive expire and the clock is inside its
\* TTL window.
InWindow(k) ==
    /\ k \in DOMAIN setlog
    /\ setlog[k].expire > 0
    /\ now < setlog[k].at + setlog[k].expire

\* The last set on k was given an expire >= 1 and the clock is strictly past
\* the end of its window.
PastWindow(k) ==
    /\ k \in DOMAIN setlog
    /\ setlog[k].expire >= 1
    /\ now > setlog[k].at + setlog[k].expire

\* The entry the last miss of call c's (callable, args) wrote is resident and
\* inside its TTL, on the in-memory backend of call c's manager.
Fresh(c) ==
    LET x == <<calls[c].func, calls[c].args>>
    IN  /\ calls[c].backend = "mem"
        /\ x \in DOMAIN memo
        /\ memo[x].manager = calls[c].manager
        /\ memo[x].expire > 0
        /\ now < memo[x].at + memo[x].expire

\* Call c takes its get_with_ttl step.
Reads(c) == calls[c].pc = "get" /\ calls'[c].pc # "get"

\* Call c has completed and is the only call so far with its (callable, args),
\* on the in-memory backend and with a key builder that kept its contract.
FirstUse(c) ==
    /\ calls[c].pc = "done"
    /\ calls[c].backend = "mem"
    /\ calls[c].key.type = "str"
    /\ Count(started, <<calls[c].func, calls[c].args>>) = 1

C2_NotConfigured ==
    \A c \in Tasks :
        calls[c].no_manager =>
            /\ calls[c].pc = "done"
            /\ calls[c].out = Raise("RuntimeError")
            /\ calls[c].kb_calls = 0 /\ calls[c].gets = 0 /\ calls[c].sets = 0
            /\ calls[c].encodes = 0 /\ calls[c].invoked = 0

\* A call refused after a reset: managers were constructed, none is active.
C2_Witness ==
    \E c \in Tasks :
        /\ calls[c].no_manager /\ calls[c].out = Raise("RuntimeError")
        /\ Len(managers) > 0 /\ instance = 0

\* C3: when the backend's get_with_ttl raises, the call is a miss: the wrapped
\* callable is invoked exactly once with the original arguments, its result
\* is what the caller gets and no backend error reaches the caller.
C3_GetFailureIsMiss ==
    \A c \in Tasks :
        calls[c].get_failed =>
            /\ calls[c].pc \in {"func", "in_func", "set", "done"}
            /\ calls[c].invoked = (IF calls[c].pc = "func" THEN 0 ELSE 1)
            /\ calls[c].pc # "func" => calls[c].fargs = calls[c].args
            /\ calls[c].out.kind = "raise" => calls[c].out = Raise(calls[c].func_raised)
            /\ (calls[c].pc = "done" /\ calls[c].func_raised = "") =>
                  /\ calls[c].result \in Results
                  /\ calls[c].out = Return(calls[c].result)

\* A call whose read failed and that returned the callable's result.
C3_Witness ==
    \E c \in Tasks :
        /\ calls[c].get_failed /\ calls[c].pc = "done"
        /\ calls[c].invoked = 1 /\ calls[c].out = Return(calls[c].result)

\* C4: when the backend's set raises on the miss path, the caller still gets
\* the value the wrapped callable computed, and no error.
C4_SetFailureReturnsResult ==
    \A c \in Tasks :
        calls[c].set_failed =>
            /\ calls[c].pc = "done"
            /\ calls[c].invoked = 1
            /\ calls[c].result \in Results
            /\ calls[c].out = Return(calls[c].result)

\* A completed call whose write failed after a read that did not.
C4_Witness ==
    \E c \in Tasks :
        /\ calls[c].set_failed /\ ~calls[c].get_failed
        /\ calls[c].out.kind = "return"

\* C5: when the wrapped callable raises on the miss path, that error reaches
\* the caller as it is, encode and set are not called for the call, and the
\* step on which it raises leaves the backend's contents as they were.
C5_CallableErrorPropagates ==
    [][\A c \in Tasks :
          calls'[c].func_raised # "" =>
              /\ calls'[c].pc = "done"
              /\ calls'[c].out = Raise(calls'[c].func_raised)
              /\ calls'[c].encodes = 0 /\ calls'[c].sets = 0
              /\ calls[c].func_raised = "" => (store' = store /\ remote' = remote)]_vars

\* An async callable raised while an entry written by another call is resident.
C5_Witness ==
    \E c \in Tasks :
        /\ calls[c].func_raised = "ValueError" /\ calls[c].out = Raise("ValueError")
        /\ deco[calls[c].func].is_async
        /\ DOMAIN store # {}

\* C6: when the key builder's resolved result is not a string, the call fails
\* with the key-builder contract error (AssertionError) before get_with_ttl,
\* before set and before the wrapped callable.
C6_KeyBuilderContract ==
    \A c \in Tasks :
        (calls[c].pc # "idle" /\ calls[c].key.type # "str") =>
            /\ calls[c].gets = 0 /\ calls[c].sets = 0 /\ calls[c].invoked = 0
            /\ \/ calls[c].pc = "await_key" /\ calls[c].key.awaitable
               \/ calls[c].pc = "done" /\ calls[c].out = Raise("AssertionError")

\* An awaited key builder result that turned out not to be a string.
C6_Witness ==
    \E c \in Tasks :
        /\ calls[c].key.awaitable /\ calls[c].key.type = "int"
        /\ calls[c].out = Raise("AssertionError")

\* C7: in-memory backend: after set(K, V, expire) with expire > 0, every
\* get(K) while the clock is inside the TTL window returns V and leaves the
\* stored entry, data and expiry, unchanged.
C7_IdempotentHit ==
    [][\A k \in BackendKeys :
          (BackendGet(k) /\ InWindow(k)) =>
              /\ ret'.data = setlog[k].data
              /\ store' = store
              /\ k \in DOMAIN store
              /\ store[k] = Value(setlog[k].data, setlog[k].at + setlog[k].expire)]_vars

\* A get that returned V at a clock value after the one of the set.
C7_Witness ==
    \E k \in BackendKeys :
        /\ InWindow(k) /\ setlog[k].at < now
        /\ ret.op = "get" /\ ret.key = k /\ ret.data = setlog[k].data
        /\ k \in DOMAIN store

\* C8: in-memory backend: after set(K, V, expire = E), E >= 1, at clock t,
\* every get(K) or get_with_ttl(K) at a clock > t + E returns absent and
\* leaves no entry for K in the map.
C8_ExpiredReadRemoves ==
    [][\A k \in BackendKeys :
          ((BackendGet(k) \/ BackendGetWithTtl(k)) /\ PastWindow(k)) =>
              /\ ret'.data = NoneBytes
              /\ k \notin DOMAIN store']_vars

\* A read past the window answered absent, the entry gone.
C8_Witness ==
    \E k \in BackendKeys :
        /\ PastWindow(k) /\ ReadOf(k)
        /\ ret.data = NoneBytes /\ k \notin DOMAIN store

\* C9: InMemoryBackend.clear(namespace = N), N non-empty, removes exactly the
\* resident entries whose key starts with N, leaves every other entry's data
\* and expiry unchanged and returns the number of entries removed.
C9_NamespaceClear ==
    [][\A i \in ClearInputs :
          (BackendClear(i.namespace, i.key) /\ TruthyStr(i.namespace)) =>
              LET gone == {k \in DOMAIN store : StartsWith(k, i.namespace)}
              IN  /\ DOMAIN store' = DOMAIN store \ gone
                  /\ \A k \in DOMAIN store' : store'[k] = store[k]
                  /\ ret'.num = Cardinality(gone)]_vars

\* clear(namespace = "n1") removed n1:a and n10:a and left n2:a.
C9_Witness ==
    /\ ret.op = "clear" /\ ret.key = <<"n", "1">> /\ ret.num = 2
    /\ DOMAIN store = {<<"n", "2", ":", "a">>}

\* C10: at most one manager is active: after init(cfg) get_instance is the
\* handle init returned and its accessors give cfg's backend, prefix, expire,
\* key builder and enabled flag, also when an earlier init had installed
\* another configuration; after reset get_instance is None.
C10_SingleActiveManager ==
    /\ get_instance \in 0..Len(managers)
    /\ ~inited.active => get_instance = 0
    /\ inited.active =>
          /\ get_instance # 0
          /\ get_instance = inited.handle
          /\ get_backend(get_instance) = inited.cfg.backend
          /\ get_prefix(get_instance) = inited.cfg.prefix
          /\ get_expire(get_instance) = inited.cfg.expire
          /\ get_key_builder(get_instance) = inited.cfg.key_builder
          /\ get_enable_status(get_instance) = inited.cfg.enable_status

\* A second init, with another configuration, has replaced the first.
C10_Witness ==
    /\ inited.active /\ get_instance = 2
    /\ get_prefix(1) # get_prefix(2) /\ get_expire(1) # get_expire(2)

\* C11: Manager.set(k, v) with no expire hands the backend k itself, v and the
\* manager's default expiration; Manager.get(k) while that entry is unexpired
\* returns exactly v; Manager.get of a key that holds no set returns absent.
C11_ManagerPassthrough ==
    [][/\ \A i \in ManagerSetInputs :
             (ManagerSet(i.key, i.data, i.expire) /\ i.expire = NoneInt) =>
                 LET e == managers[instance].expire
                     written == Value(i.data, now + e)
                 IN  /\ setlog' = DictSet(setlog, i.key,
                                          [data |-> i.data, at |-> now, expire |-> e])
                     /\ managers[instance].backend = "mem" =>
                           store' = DictSet(store, i.key, written)
                     /\ managers[instance].backend = "redis" =>
                           remote' = DictSet(remote, i.key, written)
       /\ \A k \in ManagerKeys :
             /\ (ManagerGet(k) /\ InWindow(k)) => ret'.data = setlog[k].data
             /\ (ManagerGet(k) /\ k \notin DOMAIN setlog) => ret'.data = NoneBytes]_vars

\* Manager.get returned, a second later, the value set under the manager's
\* default expiration.
C11_Witness ==
    /\ ret.op = "manager.get" /\ InWindow(ret.key)
    /\ setlog[ret.key].at < now
    /\ setlog[ret.key].expire = get_expire(get_instance)
    /\ ret.data = setlog[ret.key].data

\* Call c takes its backend.set step.
Writes(c) == calls[c].pc = "set" /\ calls'[c].pc = "done"

\* C12: concurrent misses on one key are not deduplicated: every call that
\* saw a miss invokes the callable and calls set, whatever other calls are in
\* flight, and the entry resident after a set is the one that set wrote, so
\* the last set wins.
C12_LastSetWins ==
    [][\A c \in Tasks :
          /\ (Writes(c) /\ calls[c].backend = "mem") =>
                /\ calls[c].key.key \in DOMAIN store'
                /\ store'[calls[c].key.key] =
                      Value(Encode(calls[c].coder, calls[c].result),
                            now + cells[calls[c].func].expire)
          /\ (calls'[c].pc = "done" /\ calls'[c].gets = 1
                /\ calls'[c].cached = NoneBytes /\ calls'[c].func_raised = "") =>
                (calls'[c].invoked = 1 /\ calls'[c].sets = 1)]_vars

\* Two calls with equal arguments both missed, both invoked the callable with
\* different results and both called set; the entry is that of the call that
\* set last, here the one that started first.
C12_Witness ==
    /\ calls[1].pc = "done" /\ calls[2].pc = "done"
    /\ calls[1].func = calls[2].func /\ calls[1].args = calls[2].args
    /\ calls[1].backend = "mem"
    /\ \A c \in Tasks :
          /\ calls[c].gets = 1 /\ calls[c].cached = NoneBytes
          /\ calls[c].invoked = 1 /\ calls[c].sets = 1
    /\ calls[1].result # calls[2].result
    /\ <<calls[1].func, calls[1].args>> \in DOMAIN memo
    /\ memo[<<calls[1].func, calls[1].args>>].val = calls[1].result
    /\ store[calls[1].key.key].data = Encode(calls[1].coder, calls[1].result)

\* The last set on k was given no expiration (None or 0).
ZeroExpire(k) == k \in DOMAIN setlog /\ ~TruthyInt(setlog[k].expire)

\* C13, as stated: after set(K, V) with no expiration the first get(K) that
\* follows returns V, and the get(K) that follows that one returns absent.
C13_ReadExactlyOnce ==
    [][\A k \in BackendKeys :
          (BackendGet(k) /\ ZeroExpire(k)) =>
              /\ (ret.op = "set" /\ ret.key = k) => ret'.data = setlog[k].data
              /\ ret = Ret("get", k, setlog[k].data, 0, 0) => ret'.data = NoneBytes]_vars

\* C13, amended: after set(K, V) with no expiration at clock t, every get(K)
\* while the clock still reads t returns V and leaves the entry in place, so
\* it can be read any number of times; every get(K) at a later clock value
\* returns absent and leaves no entry for K.
C13_ZeroExpireLivesOneSecond ==
    [][\A k \in BackendKeys :
          (BackendGet(k) /\ ZeroExpire(k)) =>
              /\ now = setlog[k].at =>
                    /\ ret'.data = setlog[k].data
                    /\ store' = store
                    /\ k \in DOMAIN store /\ store[k] = Value(setlog[k].data, now)
              /\ now > setlog[k].at =>
                    /\ ret'.data = NoneBytes
                    /\ k \notin DOMAIN store']_vars

\* A get that returned V from an entry set with no expiration and left it
\* resident for the next get.
C13_Witness ==
    \E k \in BackendKeys :
        /\ ZeroExpire(k) /\ now = setlog[k].at
        /\ ret = Ret("get", k, setlog[k].data, 0, 0)
        /\ k \in DOMAIN store /\ store[k].data = ret.data

\* A direct get or get_with_ttl on k.
BackendRead(k) == BackendGet(k) \/ BackendGetWithTtl(k)

\* C14, as stated: a get / get_with_ttl on a resident entry returns absent and
\* removes the entry exactly when expires_at <= now, the boundary included,
\* and otherwise returns the data and leaves the entry in place.
C14_ExpiredAtOrBeforeNow ==
    [][\A k \in BackendKeys :
          (BackendRead(k) /\ k \in DOMAIN store) =>
              IF store[k].ttl_ts <= now
              THEN ret'.data = NoneBytes /\ k \notin DOMAIN store'
              ELSE ret'.data = store[k].data /\ store' = store]_vars

\* C14, amended: a get / get_with_ttl on a resident entry returns absent and
\* removes the entry exactly when expires_at < now; otherwise, the boundary
\* expires_at = now included, it returns the data and leaves the entry in
\* place.
C14_ExpiredStrictlyBeforeNow ==
    [][\A k \in BackendKeys :
          (BackendRead(k) /\ k \in DOMAIN store) =>
              IF store[k].ttl_ts < now
              THEN ret'.data = NoneBytes /\ k \notin DOMAIN store'
              ELSE ret'.data = store[k].data /\ store' = store]_vars

\* A read at the boundary second of an entry set with a positive expire
\* returned the data and left the entry.
C14_Witness ==
    \E k \in BackendKeys :
        /\ ReadOf(k) /\ k \in DOMAIN store
        /\ k \in DOMAIN setlog /\ setlog[k].expire >= 1
        /\ store[k].ttl_ts = now /\ now = setlog[k].at + setlog[k].expire
        /\ ret.data = store[k].data

\* clear(namespace, key) matches k: by prefix, by equality, or clear of all.
ClearMatches(namespace, key, k) ==
    IF TruthyStr(namespace) THEN StartsWith(k, namespace)
    ELSE IF TruthyStr(key) THEN k = key
    ELSE TRUE

\* C15: an in-memory entry for K leaves the map only through a get /
\* get_with_ttl on K that finds it expired or through a clear that matches K;
\* the clock, set on any key and reads of other keys never remove it, so an
\* unread entry stays resident however far the clock is past its expiry.
C15_LazyExpiryOnly ==
    [][\A k \in DOMAIN store :
          k \notin DOMAIN store' =>
              \/ BackendRead(k) /\ store[k].ttl_ts < now
              \/ \E i \in ClearInputs :
                    BackendClear(i.namespace, i.key) /\ ClearMatches(i.namespace, i.key, k)]_vars

\* An entry set with a positive expire is resident two seconds past its
\* expiry, next to an entry written after that expiry.
C15_Witness ==
    \E k, j \in BackendKeys :
        /\ k \in DOMAIN store /\ k \in DOMAIN setlog /\ setlog[k].expire >= 1
        /\ store[k].ttl_ts + 2 <= now
        /\ j \in DOMAIN store /\ j \in DOMAIN setlog /\ setlog[j].at > store[k].ttl_ts

C17_ResolvedPerCall ==
    \A c \in Tasks :
        (calls[c].pc # "idle" /\ calls[c].manager # 0) =>
            LET d == deco[calls[c].func]
                h == calls[c].manager
            IN  /\ calls[c].kb = (IF d.key_builder # NoKeyBuilder THEN d.key_builder
                                  ELSE get_key_builder(h))
                /\ calls[c].coder = (IF d.coder # NoCoder THEN d.coder ELSE get_coder(h))
                /\ calls[c].sets = 1 =>
                      calls[c].set_expire = (IF d.expire # NoneInt THEN d.expire
                                             ELSE get_expire(h))

\* C18: no failure of the cache layer during a decorated call (get_with_ttl,
\* set, decode of a cached value on a hit, encode of a fresh result on a miss)
\* is visible to the caller: the caller receives the value the wrapped
\* callable computed.
C18_CacheLayerFailuresHidden ==
    \A c \in Tasks :
        (calls[c].pc = "done"
            /\ (calls[c].get_failed \/ calls[c].set_failed \/ calls[c].coder_failed # "")) =>
            /\ calls[c].invoked = 1
            /\ calls[c].func_raised = "" =>
                  /\ calls[c].result \in deco[calls[c].func].returns
                  /\ calls[c].out = Return(calls[c].result)

\* Every resident in-memory entry is a whole entry: the data and the expiry
\* of one set.
WholeEntries ==
    \A k \in DOMAIN store :
        /\ k \in DOMAIN setlog
        /\ store[k] = Value(setlog[k].data, setlog[k].at + OrInt(setlog[k].expire, 0))

\* C19: when a decorated call is cancelled while the wrapped callable is
\* executing on the miss path, that call performs no encode and no backend
\* set, then or later, the cancellation leaves both backends as they are, and
\* no entry is ever partially written.
C19_CancelledCallWritesNothing ==
    [][/\ \A c \in Tasks :
             /\ (calls[c].pc = "in_func" /\ calls'[c].cancelled # "") =>
                   /\ store' = store /\ remote' = remote
                   /\ calls'[c].out = Raise("CancelledError")
             /\ calls'[c].cancelled # "" =>
                   /\ calls'[c].pc = "done"
                   /\ calls'[c].encodes = 0 /\ calls'[c].sets = 0
       /\ WholeEntries']_vars

\* A call was cancelled in its callable while the entry of another call's
\* set is resident.
C19_Witness ==
    \E c \in Tasks :
        /\ calls[c].cancelled = "in_func" /\ calls[c].invoked = 1
        /\ calls[c].out = Raise("CancelledError")
        /\ DOMAIN store # {}
        /\ calls[c].key.key \notin DOMAIN store

\* C20: a call holds the in-memory backend's lock exactly while it is inside
\* one of the backend's blocks, so never while its key builder or its
\* callable is executing or suspended; and every read of the map (a call's
\* get) and every change of the map (a set, an expired entry dropped, a
\* clear) is made by the holder of the lock.
C20_LockOnlyAroundMap ==
    [][/\ \A c \in Tasks :
             /\ (calls'[c].pc \in LockedPcs) <=> (lock' = c)
             /\ calls'[c].pc \in {"await_key", "func", "in_func"} => lock' # c
             /\ calls'[c].gets > calls[c].gets => lock = c
             /\ calls'[c].sets > calls[c].sets => lock = c
       /\ store' # store =>
             /\ lock # 0
             /\ \A c \in Tasks : lock = c => calls'[c] # calls[c]]_vars

\* One call, its own read of the map done, is suspended in its callable
\* while another call, inside get_with_ttl, holds the lock.
C20_Witness ==
    \E c, d \in Tasks :
        /\ calls[c].pc = "in_func"
        /\ calls[c].gets = 1
        /\ calls[d].pc = "get_locked"
        /\ lock = d

\* The clear calls of SpecClear on a backend that cannot enumerate its keys.
NoEnumeration == instance # 0 /\ get_backend(instance) \in {"memcached", "dynamodb"}

\* C21: on Memcached and DynamoDB, clear with a non-empty namespace fails
\* with the unsupported-operation error (NotImplementedError), removes
\* nothing, and Manager.clear hands that error to its caller: the caller gets
\* neither a count nor silence.
C21_NamespaceClearUnsupported ==
    [][\A i \in ClearCallInputs :
          (ClearCall(i.namespace, i.key) /\ NoEnumeration /\ TruthyStr(i.namespace)) =>
              /\ ret'.op = ClearError
              /\ remote' = remote
              /\ store' = store]_vars

\* A namespace clear was refused while the server held entries under it.
C21_Witness ==
    /\ NoEnumeration
    /\ ret.op = ClearError
    /\ ret.key = <<"n">>
    /\ <<"n", ":", "a">> \in DOMAIN remote

MemHit(c) ==
    /\ calls[c].pc = "done"
    /\ calls[c].backend = "mem"
    /\ calls[c].gets = 1
    /\ ~calls[c].get_failed
    /\ calls[c].invoked = 0
    /\ calls[c].out.kind = "return"

\* C23: each InMemoryBackend instance owns its map: the map of an instance
\* just constructed (for an init) holds no entries, and a call that hits on
\* one instance is served an entry that was set through that same instance.
C23_InstanceOwnsItsMap ==
    [][/\ \A cfg \in InitConfigs :
             (ManagerInit(cfg) /\ cfg.backend = "mem") =>
                 DOMAIN StoreOf(BackendOf(Len(managers) + 1))' = {}
       /\ \A c \in Tasks :
             MemHit(c)' =>
                 LET x == <<calls'[c].func, calls'[c].args>>
                 IN  /\ x \in DOMAIN memo'
                     /\ BackendOf(memo'[x].manager) = BackendOf(calls'[c].manager)]_vars

\* The keyword arguments as the dict the callable receives: its items.
KwargsItems(kwargs) == {kwargs[i] : i \in DOMAIN kwargs}

\* Two key builder calls are for equal calls: the same callable, namespace,
\* positional arguments and keyword arguments.
SameCall(a, b) ==
    /\ a.func = b.func
    /\ a.namespace = b.namespace
    /\ a.args = b.args
    /\ KwargsItems(a.kwargs) = KwargsItems(b.kwargs)

\* C24: with the default key builder two calls get the same key if and only
\* if their callable, namespace, positional and keyword arguments are equal:
\* keyword arguments written in another order give the same key, and two
\* distinct callables of one module never share a key.
C24_SameKeyIffSameCall ==
    \A c, d \in Tasks :
        (calls[c].kb_calls = 1 /\ calls[d].kb_calls = 1
         /\ calls[c].kb = "default_key_builder" /\ calls[d].kb = "default_key_builder") =>
            (calls[c].key.key = calls[d].key.key <=> SameCall(calls[c].built, calls[d].built))

\* A datetime without UTC offset.
NaiveDatetime(v) == v.tag = "datetime" /\ Len(v.items) = 2

\* A value JSON has a form for, and that object_hook gives back as it was:
\* no tuple, no dict with a "_spec_type" key and, where pendulum is
\* installed, no naive datetime.
JsonKeeps(v, pendulum) ==
    /\ v.tag \in {"int", "str", "NoneType", "list", "dict", "Decimal", "date", "datetime"}
    /\ ~(v.tag = "dict" /\ \E i \in DOMAIN v.items : v.items[i] = "_spec_type")
    /\ ~(pendulum /\ NaiveDatetime(v))

\* The values each coder gives back as they were.
RoundTrips(coder, v, pendulum) ==
    CASE coder = "PickleCoder" -> TRUE
      [] coder = "StringCoder" -> v.tag = "str"
      [] OTHER -> /\ JsonKeeps(v, pendulum)
                  /\ \A i \in DOMAIN v.kids : JsonKeeps(v.kids[i], pendulum)

\* C25, as stated: for every shipped coder and every value v the coder can
\* encode, decode(encode(v)) equals v.
C25_EveryCoderRoundTrips ==
    \A c \in Tasks :
        calls[c].pc = "decoded" => calls[c].out = Return(calls[c].result)

\* C25, amended: decode(encode(v)) equals v for every value with PickleCoder,
\* for strings with StringCoder, and with JsonCoder for None, integers,
\* strings, lists and string-keyed dicts without a "_spec_type" key, Decimal,
\* date and datetime (a naive datetime only where pendulum is not installed),
\* also when a list or dict holds Decimal, date and datetime values; for the
\* other values tried it does not.
C25_RoundTripWhereFaithful ==
    \A c \in Tasks :
        calls[c].pc = "decoded" =>
            (calls[c].out = Return(calls[c].result)
                <=> RoundTrips(calls[c].coder, calls[c].result, calls[c].pendulum))

\* JsonCoder gave back the dict that holds a datetime, a date and a Decimal.
C25_Witness ==
    \E c \in Tasks :
        /\ calls[c].pc = "decoded"
        /\ calls[c].coder = "JsonCoder"
        /\ calls[c].result.tag = "dict"
        /\ Len(calls[c].result.kids) = 3
        /\ calls[c].out = Return(calls[c].result)

\* The entries of the active manager's backend: the resident entries of the
\* in-memory map, or the entries a get on the server can still return.
Entries(s, r, t) ==
    IF get_backend(instance) = "mem" THEN DOMAIN s
    ELSE ServerLive(get_backend(instance), r, t)

\* C26: on every backend and for every string key K, the empty string
\* included, clear(key=K) removes at most the entry stored under K, changes
\* no other entry, and returns 1 if it removed an entry and 0 if it removed
\* none.
C26_ClearKeyRemovesOne ==
    [][\A k \in ClearKeys :
          ClearCall(NoneStr, k) =>
              LET removed == Entries(store, remote, now) \ Entries(store', remote', now)
              IN  /\ removed \subseteq {k}
                  /\ \A x \in DOMAIN store' : store'[x] = store[x]
                  /\ \A x \in DOMAIN remote' : remote'[x] = remote[x]
                  /\ ret'.op = "manager.clear"
                  /\ ret'.num = Cardinality(removed)]_vars

\* C27: clear() with neither namespace nor key, through Manager.clear,
\* removes every entry, so that afterwards a get of any key returns absent,
\* and returns the number of entries it removed.
C27_ClearAllRemovesEverything ==
    [][ClearCall(NoneStr, NoneStr) =>
          /\ Entries(store', remote', now) = {}
          /\ ret'.op = "manager.clear"
          /\ ret'.num = Cardinality(Entries(store, remote, now))]_vars

\* The keys under namespace ns, as the Redis tests write them: "ns:...".
Under(ns) == {k \in ClearKeys : StartsWith(k, ns \o <<":">>)}

\* C28: RedisBackend.clear(namespace=N) removes every key under N, leaves
\* the keys of other namespaces in place, and returns an integer count that
\* is at least the number of keys that were set under N and still there.
C28_RedisNamespaceClearCounts ==
    [][\A key \in ClearKeys \cup {NoneStr} :
          (ClearCall(<<"n">>, key) /\ get_backend(instance) = "redis") =>
              /\ \A k \in Under(<<"n">>) : k \notin DOMAIN remote'
              /\ \A k \in DOMAIN remote \ Under(<<"n">>) :
                    k \in DOMAIN remote' /\ remote'[k] = remote[k]
              /\ ret'.op = "manager.clear"
              /\ ret'.num # NoneInt
              /\ ret'.num >= Cardinality(Under(<<"n">>) \cap ServerLive("redis", remote, now))]_vars

\* C29: the manager of a decorated call is resolved when the call is made:
\* the explicitly supplied manager if there is one, whether or not a
\* process-wide manager is active, and otherwise the process-wide manager
\* active at that moment; the call reads backend and prefix from it, and with
\* neither it fails with the not-configured error.  So a callable decorated
\* before init works once init has run and fails again after reset.
C29_ManagerResolvedAtCall ==
    [][\A f \in Funcs, args \in Args :
          CallStart(1, f, args) =>
              LET h == IF deco[f].cache_manager # 0 THEN deco[f].cache_manager
                       ELSE instance
                  fr == calls'[1]
              IN  /\ fr.manager = h
                  /\ h = 0 => fr.out = Raise("RuntimeError") /\ fr.pc = "done"
                  /\ h # 0 =>
                        /\ fr.out = Pending
                        /\ fr.backend = managers[h].backend
                        /\ fr.built.namespace =
                              CombinedNamespace(managers[h].prefix, deco[f].namespace)]_vars

\* A callable decorated without a manager before any init: a call of it has
\* worked on the manager a later init installed, while the explicit manager
\* exists beside it.
C29_Witness ==
    /\ deco["f"].cache_manager = 0
    /\ instance = 2
    /\ calls[1].pc = "done"
    /\ calls[1].manager = 2
    /\ calls[1].out.kind = "return"
    /\ started # <<>>

\* A call with an explicit manager has worked while no process-wide manager
\* was active, after a reset.
C29_WitnessExplicit ==
    /\ deco["f"].cache_manager = ExplicitManager
    /\ instance = 0
    /\ Len(managers) = 2
    /\ calls[1].pc = "done"
    /\ calls[1].manager = ExplicitManager
    /\ calls[1].out.kind = "return"

\* The object with handle h has all its attributes, each assigned by the
\* same init call.
WholeManager(h) ==
    /\ DOMAIN managers[h] = ManagerFields
    /\ DOMAIN inits.by[h] = ManagerFields
    /\ \A f, g \in ManagerFields : inits.by[h][f] = inits.by[h][g]

\* C30: under any interleaving of init, reset and get_instance, what
\* get_instance returned is None or a manager that has all its attributes,
\* every one of them assigned by one single init call; and so is the manager
\* cls._instance refers to at any moment.
C30_ReadersSeeWholeManagers ==
    /\ instance # 0 => WholeManager(instance)
    /\ ret.op = "get_instance" /\ ret.num # 0 => WholeManager(ret.num)

\* get_instance has returned the manager of one init call while another
\* init call was half way through __init__ of its replacement.
C30_Witness ==
    /\ ret.op = "get_instance"
    /\ ret.num # 0
    /\ \E t \in InitThreads :
          /\ inits.frames[t].pc = "construct"
          /\ inits.frames[t].self # ret.num
          /\ inits.frames[t].nset \in 1..(Len(FieldOrder) - 1)

\* The value the wrapped callable returned on the miss that wrote the entry
\* a call of (callable, args) of call c now reads.
Populated(c) == memo[<<calls[c].func, calls[c].args>>].val

\* None, 0 and the empty string.
Falsy(v) == v \in {PyNone, PyInt(0), PyStr(<<>>)}

\* C31: for every shipped coder, the value a decorated call returns on a
\* cache hit equals, in value and type, the value the wrapped callable
\* returned on the miss that populated the entry.
C31_HitEqualsPopulatingResult ==
    [][\A c \in Tasks :
          (Reads(c) /\ Fresh(c) /\ calls[c].coder \in Coders) =>
              calls'[c].out = Return(Populated(c))]_vars

\* C36: hit or miss is decided by whether the backend returned bytes and
\* not by the value: a result of None, 0 or "" is stored by the call that
\* computed it (its bytes are resident afterwards, b"" included), and a call
\* with equal arguments inside the TTL finds them and completes without
\* invoking the callable.
C36_FalsyResultsAreCached ==
    [][\A c \in Tasks :
          /\ (Writes(c) /\ calls[c].backend = "mem" /\ Falsy(calls[c].result)) =>
                /\ calls[c].key.key \in DOMAIN store'
                /\ store'[calls[c].key.key].data = Encode(calls[c].coder, calls[c].result)
                /\ calls'[c].out = Return(calls[c].result)
          /\ (Reads(c) /\ Fresh(c) /\ Falsy(Populated(c))) =>
                /\ calls'[c].cached = Encode(calls[c].coder, Populated(c))
                /\ calls'[c].pc = "done"
                /\ calls'[c].invoked = 0
                /\ calls'[c].out.kind = "return"]_vars

\* A second call inside the TTL has been served the empty bytes StringCoder
\* wrote for "" without invoking the callable.
C36_Witness ==
    /\ calls[1].pc = "done"
    /\ Fresh(1)
    /\ Populated(1) = PyStr(<<>>)
    /\ calls[1].coder = "StringCoder"
    /\ calls[1].cached = <<>>
    /\ calls[1].gets = 1
    /\ calls[1].invoked = 0
    /\ calls[1].out.kind = "return"

\* C32: the expiration handed to the backend's set on a miss is the
\* decorator's override whenever one was given, 0 included, and the
\* manager's default only when none was given.
C32_OverridePassedToSet ==
    \A c \in Tasks :
        (calls[c].pc = "done" /\ calls[c].sets = 1) =>
            calls[c].set_expire =
                (IF deco[calls[c].func].expire # NoneInt THEN deco[calls[c].func].expire
                 ELSE get_expire(calls[c].manager))

\* The entry the last miss of call c's (callable, args) wrote under call c's
\* manager has expired: the clock is strictly beyond its write time plus the
\* expire that miss handed to set.
Stale(c) ==
    LET x == <<calls[c].func, calls[c].args>>
    IN  /\ calls[c].backend = "mem"
        /\ x \in DOMAIN memo
        /\ memo[x].manager = calls[c].manager
        /\ memo[x].expire >= 1
        /\ now > memo[x].at + memo[x].expire

\* C34: once the entry a decorated call wrote has expired in the in-memory
\* backend, the next call with equal arguments is a miss: its read returns
\* nothing and removes the entry, the callable is invoked, the caller gets
\* what that invocation returned, and the entry stored expires at the time
\* of that call plus the effective expire.
C34_ExpiredEntryIsRecomputed ==
    [][\A c \in Tasks :
          /\ (Reads(c) /\ Stale(c)) =>
                /\ calls'[c].cached = NoneBytes
                /\ calls'[c].pc = "func"
                /\ calls[c].key.key \notin DOMAIN store'
          /\ (Writes(c) /\ calls[c].backend = "mem" /\ calls[c].invoked = 1) =>
                /\ calls'[c].out = Return(calls[c].result)
                /\ store'[calls[c].key.key] =
                      Value(Encode(calls[c].coder, calls[c].result),
                            now + cells[calls[c].func].expire)
          /\ (calls'[c].pc = "done" /\ calls[c].pc # "done" /\ Stale(c)
                /\ calls'[c].out.kind = "return") =>
                /\ calls'[c].invoked = 1
                /\ calls'[c].out = Return(calls'[c].result)]_vars

\* A call made after the entry of an earlier call with equal arguments
\* expired has missed and invoked the callable again, which returned a value
\* other than the stale one; the call is about to store and return it.
C34_Witness ==
    /\ calls[1].pc = "set"
    /\ Stale(1)
    /\ calls[1].invoked = 1
    /\ calls[1].cached = NoneBytes
    /\ calls[1].result # Populated(1)
    /\ calls[1].key.key \notin DOMAIN store

\* C33: Manager.set(key, value, expire=E) hands the backend's set exactly E
\* for every integer E supplied, 0 included, and the manager's default
\* expiration only when no expire is supplied.
C33_ManagerSetPassesExpire ==
    [][\A i \in ManagerSetInputs :
          ManagerSet(i.key, i.data, i.expire) =>
              setlog'[i.key].expire =
                  (IF i.expire # NoneInt THEN i.expire ELSE get_expire(instance))]_vars

\* The keys of the entries the calls of callable f write under the active
\* manager with the default key builder.
KeysOf(f) ==
    {DefaultKey(deco[f].module, f,
                CombinedNamespace(get_prefix(instance), deco[f].namespace), args) :
        args \in Args}

\* manager.clear(namespace=<prefix joined with ns>) is called.
ClearsNamespace(ns) ==
    ManagerClear(CombinedNamespace(get_prefix(instance), ns), NoneStr)

\* C35, as stated: clearing the combined namespace of ns removes every entry
\* written by the callables decorated with ns and no entry written by a
\* callable decorated with another namespace.
C35_NamespaceClearIsolated ==
    [][\A ns \in Namespaces :
          ClearsNamespace(ns) =>
              \A f \in NamespaceFuncs :
                  IF deco[f].namespace = ns
                  THEN KeysOf(f) \cap DOMAIN store' = {}
                  ELSE \A k \in KeysOf(f) \cap DOMAIN store :
                          k \in DOMAIN store' /\ store'[k] = store[k]]_vars

\* C35, amended: clearing the combined namespace of ns removes exactly the
\* resident entries whose key begins with that text: every entry written by
\* the callables decorated with ns, whose next call is then a miss, and no
\* entry of a callable decorated with a non-empty ns2 that does not begin
\* with ns, ns being non-empty; entries of callables whose namespace begins
\* with ns (every namespace, if ns is empty) are removed with them.
C35_NamespaceClearByPrefix ==
    [][/\ \A ns \in Namespaces :
             ClearsNamespace(ns) =>
                 LET cn == CombinedNamespace(get_prefix(instance), ns)
                 IN  /\ store' = DictDel(store, {k \in DOMAIN store : StartsWith(k, cn)})
                     /\ \A f \in NamespaceFuncs :
                           LET ns2 == deco[f].namespace
                           IN  /\ ns2 = ns => KeysOf(f) \cap DOMAIN store' = {}
                               /\ StartsWith(ns2, ns) => KeysOf(f) \cap DOMAIN store' = {}
                               /\ (ns # <<>> /\ ns2 # <<>> /\ ~StartsWith(ns2, ns)) =>
                                     \A k \in KeysOf(f) \cap DOMAIN store :
                                         k \in DOMAIN store' /\ store'[k] = store[k]
       /\ (Reads(1) /\ calls[1].key.key \notin DOMAIN store) =>
             calls'[1].pc = "func" /\ calls'[1].cached = NoneBytes]_vars

\* f is decorated with "n" and g with "m"; both wrote an entry, and a clear
\* of the combined namespace of "n" has removed f's and kept g's.
C35_Witness ==
    /\ deco["f"].namespace = <<"n">>
    /\ deco["g"].namespace = <<"m">>
    /\ ncalls = 2
    /\ calls[1].pc = "done"
    /\ calls[1].func = "g"
    /\ calls[1].sets = 1
    /\ KeysOf("f") \cap DOMAIN store = {}
    /\ KeysOf("g") \cap DOMAIN store # {}
    /\ KeysOf("f") \cap DOMAIN setlog = {}
    /\ memo = <<>>

\* The last set on k has not expired: the clock is not beyond its write time
\* plus its expire (none and 0 count as 0).
Unexpired(k) ==
    /\ k \in DOMAIN setlog
    /\ k \in DOMAIN store
    /\ now <= setlog[k].at + OrInt(setlog[k].expire, 0)

\* C37: InMemoryBackend.set(K, V2, E2) on a resident key replaces the data
\* and the expiry of that entry and nothing else: the map has the same keys
\* afterwards and every other entry is as it was; an unexpired get(K) that
\* follows returns the data of the latest set and get_with_ttl(K) the
\* seconds left of the latest set's expiry.
C37_SetReplacesEntry ==
    [][/\ \A i \in OverwriteInputs :
             (BackendSet(i.key, i.data, i.expire) /\ i.key \in DOMAIN store) =>
                 /\ DOMAIN store' = DOMAIN store
                 /\ store'[i.key] = Value(i.data, now + OrInt(i.expire, 0))
                 /\ \A k \in DOMAIN store \ {i.key} : store'[k] = store[k]
       /\ \A k \in {ResidentKey, OtherKey} :
             /\ (BackendGet(k) /\ Unexpired(k)) => ret'.data = setlog[k].data
             /\ (BackendGetWithTtl(k) /\ Unexpired(k)) =>
                   /\ ret'.data = setlog[k].data
                   /\ ret'.ttl = setlog[k].at + OrInt(setlog[k].expire, 0) - now]_vars

\* b"v1" was set at second 0 with expire 2 and b"v2" over it at second 1
\* with expire 2; at second 2 get_with_ttl returns b"v2" with 1 second left,
\* where the first entry would have had none.
C37_Witness ==
    /\ now = 2
    /\ ret = Ret("get_with_ttl", ResidentKey, <<"v2">>, 1, 0)
    /\ setlog[ResidentKey].at = 1
    /\ store[ResidentKey] = Value(<<"v2">>, 3)
    /\ store[OtherKey] = Value(<<"v1">>, 3)

\* Task c has a decorated call or a clear call in progress.
Running(c) == calls[c].pc \notin {"idle", "done"}

\* Task c waits for the in-memory backend's lock, which another task holds.
WaitsForLock(c) == calls[c].pc \in {"get", "set", "clear"} /\ lock \notin {0, c}

\* C38: the lock is held only by a task inside one of the backend's blocks,
\* which leaves the block and releases it; so under fair scheduling, with key
\* builders and callables that terminate, every decorated call and every
\* clear call in progress eventually completes with a result or an error,
\* and no task waits for the lock forever.
C38_EveryCallCompletes ==
    /\ [](lock # 0 => lock \in Tasks /\ calls[lock].pc \in LockedPcs)
    /\ \A c \in Tasks :
          /\ Running(c) ~> (calls[c].pc = "done" /\ calls[c].out.kind \in {"return", "raise"})
          /\ WaitsForLock(c) ~> ~WaitsForLock(c)

\* A decorated call waits to enter get_with_ttl while another task's clear
\* holds the lock.
C38_Witness ==
    /\ calls[1].pc = "clear_locked"
    /\ lock = 1
    /\ calls[2].pc = "get"
    /\ WaitsForLock(2)

====
